---- MODULE Spec2Model ----
(***************************************************************************)
(* FinTrackr ingestion pipeline: column detection (ColumnDetector), field  *)
(* normalisation and classification (ETLService) and the upload handler    *)
(* (ExpenseViewSet.upload).                                                *)
(*                                                                         *)
(* Text is a sequence of one-character strings, so that the regular        *)
(* expressions and string methods of the source can be modelled character  *)
(* by character.  A cell of a DataFrame is Null (NaN), Text(chars) or      *)
(* Num(float).  A float is an exact decimal [num, exp] = num / 10^exp in    *)
(* canonical form (exp = 0 or num not divisible by 10).                    *)
(***************************************************************************)
EXTENDS Integers, Sequences, FiniteSets, TLC

VARIABLES
    input,      \* SpecAmount: the frame handed to _clean_amounts
    cleaned,    \* SpecAmount: the frame _clean_amounts returned
    classified, \* SpecAmount: the frame _classify_transactions returned
    stage,      \* SpecAmount: "raw" | "cleaned" | "classified"
    file,       \* SpecDetect: the uploaded file (name and decoded table)
    detected,   \* SpecDetect: what detect_columns returned for the table
    extracted,  \* SpecDetect: what extract returned or raised
    transformed,\* SpecDetect: what transform returned or raised
    handle,     \* SpecRead: the uploaded file object (bytes and read position)
    frame,      \* SpecRead: what read_csv returned or raised
    rules,      \* Spec: the CategoryRule table, in creation order
    request,    \* Spec: the upload request being served
    response,   \* Spec: the response of the upload handler
    expenses,   \* SpecRules: the Expense table, in creation order
    calls       \* SpecRules: the update_category requests being served

vars == <<input, cleaned, classified, stage, file, detected, extracted,
          transformed, rules, request, response, handle, frame, expenses, calls>>

-----------------------------------------------------------------------------
(* Characters *)

UMINUS == "U+2212"
TAB == "\t"

Digit == {"0", "1", "2", "3", "4", "5", "6", "7", "8", "9"}
Upper == {"A", "B", "C", "D", "E", "F", "G", "H", "I", "J", "K", "L", "M",
          "N", "O", "P", "Q", "R", "S", "T", "U", "V", "W", "X", "Y", "Z"}
Lower == {"a", "b", "c", "d", "e", "f", "g", "h", "i", "j", "k", "l", "m",
          "n", "o", "p", "q", "r", "s", "t", "u", "v", "w", "x", "y", "z"}
Letter == Upper \cup Lower
WordChar == Letter \cup Digit \cup {"_"}
Space == {" ", TAB}
CurrencySymbol == {"$", "GBP_SIGN", "EUR_SIGN", "YEN_SIGN", "NAIRA_SIGN",
                   "SHEKEL_SIGN", "RUPEE_SIGN"}

UpperSeq == <<"A", "B", "C", "D", "E", "F", "G", "H", "I", "J", "K", "L", "M",
              "N", "O", "P", "Q", "R", "S", "T", "U", "V", "W", "X", "Y", "Z">>
LowerSeq == <<"a", "b", "c", "d", "e", "f", "g", "h", "i", "j", "k", "l", "m",
              "n", "o", "p", "q", "r", "s", "t", "u", "v", "w", "x", "y", "z">>
DigitSeq == <<"0", "1", "2", "3", "4", "5", "6", "7", "8", "9">>

\* str.lower() on one character
LowerChar(c) ==
    IF c \in Upper
    THEN LowerSeq[CHOOSE i \in 1..26 : UpperSeq[i] = c]
    ELSE c

\* str.lower()
ToLower(s) == [i \in 1..Len(s) |-> LowerChar(s[i])]

RECURSIVE LStrip(_)
LStrip(s) ==
    IF s # <<>> /\ Head(s) \in Space THEN LStrip(Tail(s)) ELSE s

RECURSIVE RStrip(_)
RStrip(s) ==
    IF s # <<>> /\ s[Len(s)] \in Space THEN RStrip(SubSeq(s, 1, Len(s) - 1)) ELSE s

\* str.strip()
Strip(s) == RStrip(LStrip(s))

\* `sub in s` for strings
Contains(s, sub) ==
    \E i \in 1..(Len(s) - Len(sub) + 1) : SubSeq(s, i, i + Len(sub) - 1) = sub

\* s.startswith(sub)
StartsWith(s, sub) == Len(s) >= Len(sub) /\ SubSeq(s, 1, Len(sub)) = sub

\* s.endswith(sub)
EndsWith(s, sub) ==
    Len(s) >= Len(sub) /\ SubSeq(s, Len(s) - Len(sub) + 1, Len(s)) = sub

\* s.replace(c, '') / re.sub('[set]', '', s) for a set of single characters
RemoveChars(s, set) == SelectSeq(s, LAMBDA c : c \notin set)

\* s.replace(a, b) for single characters
ReplaceChar(s, a, b) == [i \in 1..Len(s) |-> IF s[i] = a THEN b ELSE s[i]]

\* the regex assertion \b after position j, where s[j] is a word character
BoundaryAfter(s, j) == j = Len(s) \/ s[j + 1] \notin WordChar

-----------------------------------------------------------------------------
(* Floats *)

None == [kind |-> "none"]

RECURSIVE Canon(_, _)
Canon(n, e) ==
    IF e > 0 /\ n % 10 = 0 THEN Canon(n \div 10, e - 1)
    ELSE [kind |-> "float", num |-> n, exp |-> e]

Float(n, e) == Canon(n, e)

DigitVal(c) == (CHOOSE i \in 1..10 : DigitSeq[i] = c) - 1

RECURSIVE DigitsToNat(_)
DigitsToNat(s) ==
    IF s = <<>> THEN 0
    ELSE DigitsToNat(SubSeq(s, 1, Len(s) - 1)) * 10 + DigitVal(s[Len(s)])

\* number of characters after the decimal point of a body with one point
FracDigits(body) ==
    IF \E i \in 1..Len(body) : body[i] = "."
    THEN Len(body) - (CHOOSE i \in 1..Len(body) : body[i] = ".")
    ELSE 0

\* float() of an unsigned body whose digits (the body without points) are given
ToFloatBody(neg, body, digits) ==
    IF digits = <<>> \/ Len(body) - Len(digits) > 1
       \/ \E i \in 1..Len(digits) : digits[i] \notin Digit
    THEN None
    ELSE Float((IF neg THEN -1 ELSE 1) * DigitsToNat(digits), FracDigits(body))

ToFloatSigned(neg, body) == ToFloatBody(neg, body, RemoveChars(body, {"."}))

\* float(s) for s over the characters [0-9.-]; None where Python raises
ToFloat(s) ==
    ToFloatSigned(s # <<>> /\ s[1] = "-",
                  IF s # <<>> /\ s[1] = "-" THEN Tail(s) ELSE s)

FNeg(x) == Float(-x.num, x.exp)
FAbs(x) == IF x.num < 0 THEN FNeg(x) ELSE x
FMulSign(sign, x) == IF sign = -1 THEN FNeg(x) ELSE x

RECURSIVE NatToDigits(_)
NatToDigits(n) ==
    IF n < 10 THEN <<DigitSeq[n + 1]>>
    ELSE NatToDigits(n \div 10) \o <<DigitSeq[(n % 10) + 1]>>

RECURSIVE Pow10(_)
Pow10(e) == IF e = 0 THEN 1 ELSE 10 * Pow10(e - 1)

RECURSIVE PadZeros(_, _)
PadZeros(s, width) == IF Len(s) >= width THEN s ELSE PadZeros(<<"0">> \o s, width)

\* the digits of mag / 10^exp, written as <integer part>.<fraction>
FormatMagnitude(mag, exp, p) ==
    NatToDigits(mag \div p) \o <<".">>
        \o (IF exp = 0 THEN <<"0">> ELSE PadZeros(NatToDigits(mag % p), exp))

\* str(x) for a float in the range Python prints in positional notation
FormatFloat(x) ==
    (IF x.num < 0 THEN <<"-">> ELSE <<>>)
        \o FormatMagnitude(IF x.num < 0 THEN -x.num ELSE x.num, x.exp, Pow10(x.exp))

-----------------------------------------------------------------------------
(* Cells *)

Null == [kind |-> "null"]
Text(s) == [kind |-> "text", chars |-> s]
Num(x) == [kind |-> "num", val |-> x]

\* pd.isna(value)
IsNa(v) == v.kind \in {"null", "none"}

\* str(value) / astype(str) of a non-null cell
Str(v) == IF v.kind = "num" THEN FormatFloat(v.val) ELSE v.chars

-----------------------------------------------------------------------------
(* ETLService._clean_amounts / _classify_transactions *)

\* length of the match of (?i)[A-Z]{2,3}\b at position i (greedy), 0 if none
CodeMatchLen(s, i) ==
    IF i + 2 <= Len(s) /\ s[i] \in Letter /\ s[i + 1] \in Letter
       /\ s[i + 2] \in Letter /\ BoundaryAfter(s, i + 2)
    THEN 3
    ELSE IF i + 1 <= Len(s) /\ s[i] \in Letter /\ s[i + 1] \in Letter
            /\ BoundaryAfter(s, i + 1)
         THEN 2
         ELSE 0

RECURSIVE StripCodesFrom(_, _)
StripCodesFrom(s, i) ==
    IF i > Len(s) THEN <<>>
    ELSE IF CodeMatchLen(s, i) > 0 THEN StripCodesFrom(s, i + CodeMatchLen(s, i))
         ELSE <<s[i]>> \o StripCodesFrom(s, i + 1)

\* re.sub(r'(?i)[A-Z]{2,3}\b', '', s)
StripCurrencyCodes(s) == StripCodesFrom(s, 1)

\* (?i)<a><b>\b matches at position i
TokenAt(s, i, a, b) ==
    /\ i + 1 <= Len(s)
    /\ LowerChar(s[i]) = a
    /\ LowerChar(s[i + 1]) = b
    /\ BoundaryAfter(s, i + 1)

\* re.search(r'(?i)<a><b>\b', s)
HasToken(s, a, b) == \E i \in 1..Len(s) : TokenAt(s, i, a, b)

RECURSIVE RemoveTokenFrom(_, _, _, _)
RemoveTokenFrom(s, i, a, b) ==
    IF i > Len(s) THEN <<>>
    ELSE IF TokenAt(s, i, a, b) THEN RemoveTokenFrom(s, i + 2, a, b)
         ELSE <<s[i]>> \o RemoveTokenFrom(s, i + 1, a, b)

\* re.sub(r'(?i)<a><b>\b', '', s)
RemoveToken(s, a, b) == RemoveTokenFrom(s, 1, a, b)

\* the CR/DR step of parse_amount: <<sign, rest>>
CrDrStep(s) ==
    IF HasToken(s, "c", "r") THEN <<1, RemoveToken(s, "c", "r")>>
    ELSE IF HasToken(s, "d", "r") THEN <<-1, RemoveToken(s, "d", "r")>>
         ELSE <<1, s>>

\* the parentheses step of parse_amount
ParenStep(p) ==
    IF StartsWith(p[2], <<"(">>) /\ EndsWith(p[2], <<")">>)
    THEN <<-1, SubSeq(p[2], 2, Len(p[2]) - 1)>>
    ELSE p

\* the leading plus/minus step of parse_amount
LeadingSignStep(p) ==
    IF StartsWith(p[2], <<"-">>) THEN <<-1, Tail(p[2])>>
    ELSE IF StartsWith(p[2], <<"+">>) THEN <<p[1], Tail(p[2])>>
         ELSE p

\* re.sub(r'[^0-9.\-]', '', s)
KeepNumeric(s) == SelectSeq(s, LAMBDA c : c \in Digit \cup {".", "-"})

\* sign * val (line 201), None if float() raised
ApplySign(sign, x) == IF x = None THEN None ELSE FMulSign(sign, x)

\* lines 196-203 of parse_amount
FinishAmount(sign, s) ==
    IF s = <<>> \/ s = <<".">> THEN None ELSE ApplySign(sign, ToFloat(s))

\* lines 190-203 of parse_amount, from the <<sign, rest>> of the sign steps
SignedRest(p) == FinishAmount(p[1], KeepNumeric(RemoveChars(p[2], {","})))

\* lines 156-167 of parse_amount: the text the sign steps work on
Denoise(value) ==
    RemoveChars(
        RemoveChars(StripCurrencyCodes(ReplaceChar(Strip(Str(value)), UMINUS, "-")),
                    CurrencySymbol),
        {" "})

\* parse_amount(value): the signed float, or None
parse_amount(value) ==
    IF IsNa(value) THEN None
    ELSE SignedRest(LeadingSignStep(ParenStep(CrDrStep(Denoise(value)))))

\* _clean_amounts where one unparsable amount rejects the whole table
_clean_amounts_strict(rows) ==
    IF \E i \in 1..Len(rows) : IsNa(parse_amount(rows[i].amount)) THEN <<>> ELSE
    SelectSeq([i \in 1..Len(rows) |->
                  [rows[i] EXCEPT !.amount = parse_amount(rows[i].amount)]],
              LAMBDA r : ~IsNa(r.amount))

\* _clean_amounts(df): parse every amount and drop the rows that do not parse
_clean_amounts(rows) ==
    SelectSeq([i \in 1..Len(rows) |->
                  [rows[i] EXCEPT !.amount = parse_amount(rows[i].amount)]],
              LAMBDA r : ~IsNa(r.amount))

\* ttype with the comparisons the other way round
ttype_inverted(x) ==
    IF x.num > 0 THEN "DEBIT"
    ELSE IF x.num < 0 THEN "CREDIT"
         ELSE "NEUTRAL"

\* ttype(x)
ttype(x) ==
    IF x.num > 0 THEN "CREDIT"
    ELSE IF x.num < 0 THEN "DEBIT"
         ELSE "NEUTRAL"

\* _classify_transactions without the abs() of line 252
_classify_transactions_signed(rows) ==
    [i \in 1..Len(rows) |->
        [date |-> rows[i].date,
         amount |-> rows[i].amount,
         description |-> rows[i].description,
         transaction_type |-> ttype(rows[i].amount)]]

\* _classify_transactions(df)
_classify_transactions(rows) ==
    [i \in 1..Len(rows) |->
        [date |-> rows[i].date,
         amount |-> FAbs(rows[i].amount),
         description |-> rows[i].description,
         transaction_type |-> ttype(rows[i].amount)]]

-----------------------------------------------------------------------------
(* Inputs of the amount stages *)

MaxRows == 2

Pending == [kind |-> "pending"]

\* magnitudes as they are written, with the float they denote
Magnitudes ==
    { [text |-> <<"5", "0", ".", "0", "0">>, val |-> Float(50, 0)],
      [text |-> <<"1", ",", "5", "0", "0", ".", "0", "0">>, val |-> Float(1500, 0)],
      [text |-> <<"0", ".", "7", "5">>, val |-> Float(75, 2)],
      [text |-> <<"0">>, val |-> Float(0, 0)] }

AmountPrefixes ==
    { <<>>, <<"-">>, <<"+">>, <<"(">>, <<"(", "-">>, <<"(", "+">>, <<"$">>,
      <<"N", "G", "N", " ">>, <<UMINUS>>, <<"-", "-">>, <<" ">> }

AmountSuffixes ==
    { <<>>, <<")">>, <<" ", "D", "R">>, <<"D", "R">>, <<" ", "C", "R">>,
      <<" ", "d", "r">>, <<")", " ", "C", "R">>, <<")", " ", "D", "R">>,
      <<" ", "D", " ", "R">>, <<")", " ", "C", " ", "R">>, <<" ", "U", "S", "D">> }

OddAmounts ==
    { Null, Text(<<>>), Text(<<".">>), Text(<<"a", "b", "c">>),
      Text(<<"1", ".", "2", ".", "3">>), Text(<<"5", "-", "0">>),
      Num(Float(50, 0)), Num(Float(-1500, 0)), Num(Float(0, 0)), Num(Float(1205, 2)) }

RawAmounts ==
    { Text(p \o m.text \o s) : p \in AmountPrefixes, m \in Magnitudes, s \in AmountSuffixes }
    \cup OddAmounts

\* rows after the first of a frame
FillerAmounts == { Text(<<"7">>), Text(<<"a", "b", "c">>), Null }

IsoDay == <<"2", "0", "2", "4", "-", "0", "1", "-", "1", "5">>
SomeText == <<"U", "b", "e", "r">>

AmountRow(a) == [date |-> Text(IsoDay), amount |-> a, description |-> Text(SomeText)]

RECURSIVE FramesOfLen(_)
FramesOfLen(n) ==
    IF n = 1 THEN { <<AmountRow(a)>> : a \in RawAmounts }
    ELSE { f \o <<AmountRow(a)>> : f \in FramesOfLen(n - 1), a \in FillerAmounts }

AmountFrames == UNION { FramesOfLen(n) : n \in 1..MaxRows }

Idle == [kind |-> "idle"]

InitAmount ==
    /\ input \in AmountFrames
    /\ cleaned = Pending
    /\ classified = Pending
    /\ stage = "raw"
    /\ file = Idle /\ detected = Idle /\ extracted = Idle /\ transformed = Idle
    /\ rules = <<>> /\ request = Idle /\ response = Idle
    /\ handle = Idle /\ frame = Idle
    /\ expenses = Idle /\ calls = Idle

CleanAmounts ==
    /\ stage = "raw"
    /\ cleaned' = _clean_amounts(input)
    /\ stage' = "cleaned"
    /\ UNCHANGED <<input, classified, file, detected, extracted, transformed, rules, request, response, handle, frame, expenses, calls>>

ClassifyTransactions ==
    /\ stage = "cleaned"
    /\ classified' = _classify_transactions(cleaned)
    /\ stage' = "classified"
    /\ UNCHANGED <<input, cleaned, file, detected, extracted, transformed, rules, request, response, handle, frame, expenses, calls>>

NextAmount == CleanAmounts \/ ClassifyTransactions

SpecAmount == InitAmount /\ [][NextAmount]_vars

-----------------------------------------------------------------------------
(* Claims about the amount stages (SpecAmount) *)

\* C2: _classify_transactions tags a row CREDIT when its signed amount is
\* positive, DEBIT when negative and NEUTRAL when zero, and replaces the amount
\* by its absolute value, so every classified amount is >= 0.
C2_ClassifyBySign ==
    stage = "classified" =>
        /\ Len(classified) = Len(cleaned)
        /\ \A i \in 1..Len(cleaned) :
              LET x == cleaned[i].amount
                  t == classified[i]
              IN  /\ (x.num > 0) => (t.transaction_type = "CREDIT")
                  /\ (x.num < 0) => (t.transaction_type = "DEBIT")
                  /\ (x.num = 0) => (t.transaction_type = "NEUTRAL")
                  /\ t.amount.num >= 0
                  /\ t.amount.num \in {x.num, -x.num}
                  /\ t.amount.exp = x.exp

C2_Witness ==
    /\ stage = "classified"
    /\ Len(classified) = 2
    /\ classified[1].transaction_type = "DEBIT"
    /\ classified[1].amount = Float(1500, 0)
    /\ classified[2].transaction_type = "CREDIT"

Fifty == <<"5", "0", ".", "0", "0">>

\* C3: each of "50.00", "-50.00", "(50.00)" and "50.00 DR" comes out of
\* _clean_amounts and _classify_transactions as amount 50.00, direction DEBIT.
C3_FourNotationsDebit ==
    (/\ stage = "classified"
     /\ Len(input) = 1
     /\ input[1].amount \in { Text(Fifty), Text(<<"-">> \o Fifty),
                              Text(<<"(">> \o Fifty \o <<")">>),
                              Text(Fifty \o <<" ", "D", "R">>) })
    => /\ Len(classified) = 1
       /\ classified[1].amount = Float(50, 0)
       /\ classified[1].transaction_type = "DEBIT"

\* the three debit notations of a magnitude
DebitNotations(m) ==
    { Text(<<"(">> \o m \o <<")">>), Text(<<"-">> \o m),
      Text(m \o <<" ", "D", "R">>), Text(m \o <<"D", "R">>) }

\* C4: "(m)", "-m" and "m DR" (with or without the space) all normalise to
\* the signed value -m; the currency-code stripping leaves the DR token alone.
C4_DebitNotationsAgree ==
    \A m \in Magnitudes :
        (/\ stage = "cleaned"
         /\ Len(input) = 1
         /\ input[1].amount \in DebitNotations(m.text))
        => /\ Len(cleaned) = 1
           /\ cleaned[1].amount = FNeg(m.val)

\* the raw text carries the token once its spaces are removed
CarriesToken(v, a, b) ==
    v.kind = "text" /\ HasToken(RemoveChars(v.chars, {" "}), a, b)

\* the raw text, currency noise aside, is parenthesised
Parenthesised(v) ==
    /\ v.kind = "text"
    /\ StartsWith(Strip(v.chars), <<"(">>)
    /\ EndsWith(Strip(v.chars), <<")">>)

\* C5: sign precedence CR/DR token > parentheses > leading sign: a value with
\* a CR token is never negative, one with a DR token never positive, and a
\* parenthesised value without CR/DR is never positive.
C5_SignPrecedence ==
    (stage = "cleaned" /\ Len(input) = 1 /\ Len(cleaned) = 1) =>
        LET v == input[1].amount
            x == cleaned[1].amount
        IN  /\ CarriesToken(v, "c", "r") => x.num >= 0
            /\ (CarriesToken(v, "d", "r") /\ ~CarriesToken(v, "c", "r")) => x.num <= 0
            /\ (Parenthesised(v) /\ ~CarriesToken(v, "c", "r")
                  /\ ~CarriesToken(v, "d", "r")) => x.num <= 0

-----------------------------------------------------------------------------
(* Dates: pd.to_datetime on the text formats the model covers *)
(* (ISO YYYY-MM-DD and slash NN/NN/YYYY); any other text is not a date.    *)

NaT == [kind |-> "nat"]
Date(y, m, d) == [kind |-> "date", y |-> y, m |-> m, d |-> d]

IsLeap(y) == (y % 4 = 0 /\ y % 100 # 0) \/ y % 400 = 0

DaysInMonth(y, m) ==
    IF m = 2 THEN (IF IsLeap(y) THEN 29 ELSE 28)
    ELSE IF m \in {4, 6, 9, 11} THEN 30 ELSE 31

ValidDate(y, m, d) == m \in 1..12 /\ d >= 1 /\ d <= DaysInMonth(y, m)

AllDigits(s) == \A i \in 1..Len(s) : s[i] \in Digit

IsIsoText(s) ==
    /\ Len(s) = 10
    /\ s[5] = "-" /\ s[8] = "-"
    /\ AllDigits(SubSeq(s, 1, 4)) /\ AllDigits(SubSeq(s, 6, 7)) /\ AllDigits(SubSeq(s, 9, 10))

IsSlashText(s) ==
    /\ Len(s) = 10
    /\ s[3] = "/" /\ s[6] = "/"
    /\ AllDigits(SubSeq(s, 1, 2)) /\ AllDigits(SubSeq(s, 4, 5)) /\ AllDigits(SubSeq(s, 7, 10))

MakeDate(y, m, d) == IF ValidDate(y, m, d) THEN Date(y, m, d) ELSE NaT

ParseIso(s) ==
    MakeDate(DigitsToNat(SubSeq(s, 1, 4)), DigitsToNat(SubSeq(s, 6, 7)),
             DigitsToNat(SubSeq(s, 9, 10)))

MakeSlashDate(a, b, y, fmt) ==
    IF fmt = "mdy" THEN MakeDate(y, a, b) ELSE MakeDate(y, b, a)

ParseSlash(s, fmt) ==
    MakeSlashDate(DigitsToNat(SubSeq(s, 1, 2)), DigitsToNat(SubSeq(s, 4, 5)),
                  DigitsToNat(SubSeq(s, 7, 10)), fmt)

\* parse one text under a fixed format: "iso", "mdy" (%m/%d/%Y) or "dmy" (%d/%m/%Y)
ParseWithFormat(s, fmt) ==
    IF fmt = "iso" /\ IsIsoText(s) THEN ParseIso(s)
    ELSE IF fmt \in {"mdy", "dmy"} /\ IsSlashText(s) THEN ParseSlash(s, fmt)
         ELSE NaT

\* the formats in the order they are tried
GuessOrder(dayfirst) ==
    IF dayfirst THEN <<"iso", "dmy", "mdy">> ELSE <<"iso", "mdy", "dmy">>

PickFormat(order, ok) ==
    IF ok = {} THEN "none" ELSE order[CHOOSE k \in ok : \A j \in ok : k <= j]

FirstFormat(s, order) ==
    PickFormat(order, { k \in 1..Len(order) : ParseWithFormat(s, order[k]) # NaT })

\* the format pandas infers from a value; "none" if it has none
GuessFormat(s, dayfirst) == FirstFormat(s, GuessOrder(dayfirst))

ParseGuessed(s, fmt) == IF fmt = "none" THEN NaT ELSE ParseWithFormat(s, fmt)

\* element-wise parse used when no format could be inferred for the column
ParseLoose(s, dayfirst) == ParseGuessed(s, GuessFormat(s, dayfirst))

\* the format inferred from the first non-null value of the column
ColumnFormat(nonnull, dayfirst) ==
    IF nonnull = <<>> THEN "none" ELSE GuessFormat(Str(nonnull[1]), dayfirst)

ParseCell(s, dayfirst, fmt) ==
    IF fmt = "none" THEN ParseLoose(s, dayfirst) ELSE ParseWithFormat(s, fmt)

ParseColumn(cells, dayfirst, fmt) ==
    [i \in 1..Len(cells) |->
        IF IsNa(cells[i]) THEN NaT ELSE ParseCell(Str(cells[i]), dayfirst, fmt)]

\* pd.to_datetime(series, errors='coerce', dayfirst=dayfirst) on text cells
to_datetime(cells, dayfirst) ==
    ParseColumn(cells, dayfirst,
                ColumnFormat(SelectSeq(cells, LAMBDA c : ~IsNa(c)), dayfirst))

\* floor of a float
FFloor(x) == x.num \div Pow10(x.exp)

CivilYMD(yoe, era, doy, mp) ==
    Date(yoe + era * 400 + (IF mp < 10 THEN 0 ELSE 1),
         IF mp < 10 THEN mp + 3 ELSE mp - 9,
         doy - (153 * mp + 2) \div 5 + 1)

CivilDoy(yoe, era, doy) == CivilYMD(yoe, era, doy, (5 * doy + 2) \div 153)

CivilYoe(era, doe, yoe) ==
    CivilDoy(yoe, era, doe - (365 * yoe + yoe \div 4 - yoe \div 100))

CivilEra(era, doe) ==
    CivilYoe(era, doe,
             (doe - doe \div 1460 + doe \div 36524 - doe \div 146096) \div 365)

\* the civil date of a day count since 1970-01-01
CivilFromDays(z) ==
    CivilEra((z + 719468) \div 146097, (z + 719468) - ((z + 719468) \div 146097) * 146097)

\* days from 1899-12-30 to 1970-01-01
EpochOffset == 25569

\* a timestamp outside the nanosecond range is coerced to NaT
InRange(dt) == IF dt.y >= 1678 /\ dt.y <= 2261 THEN dt ELSE NaT

\* pd.to_datetime(series, unit='d', origin='1899-12-30', errors='coerce')
serial_to_datetime(cells) ==
    [i \in 1..Len(cells) |->
        IF IsNa(cells[i]) THEN NaT
        ELSE InRange(CivilFromDays(FFloor(cells[i].val) - EpochOffset))]

\* dt.strftime('%Y-%m-%d')
strftime(dt) ==
    PadZeros(NatToDigits(dt.y), 4) \o <<"-">> \o PadZeros(NatToDigits(dt.m), 2)
        \o <<"-">> \o PadZeros(NatToDigits(dt.d), 2)

\* pd.api.types.is_numeric_dtype(series): no text cell in the column
is_numeric_dtype(cells) == \A i \in 1..Len(cells) : cells[i].kind # "text"

\* number of parsed (non-NaT) values
NotNaCount(parsed) == Cardinality({i \in 1..Len(parsed) : parsed[i] # NaT})

Max(a, b) == IF a >= b THEN a ELSE b

\* lines 117-123: the day-first parse replaces the month-first one when more
\* than max(1, total // 3) values failed and day-first parses strictly more
ChooseParsed(parsed, parsed2) ==
    IF (Len(parsed) - NotNaCount(parsed)) > Max(1, Len(parsed) \div 3)
       /\ NotNaCount(parsed2) > NotNaCount(parsed)
    THEN parsed2
    ELSE parsed

\* the parsed date column of _clean_dates (lines 109-124)
ParsedDates(cells) ==
    IF is_numeric_dtype(cells) THEN serial_to_datetime(cells)
    ELSE ChooseParsed(to_datetime(cells, FALSE), to_datetime(cells, TRUE))

\* the dated rows, last row first
WithDates_reversed(rows, parsed) ==
    LET kept == SelectSeq([i \in 1..Len(rows) |->
                              [rows[i] EXCEPT !.date =
                                  IF parsed[i] = NaT THEN NaT ELSE Text(strftime(parsed[i]))]],
                          LAMBDA r : r.date.kind # "nat")
    IN  [i \in 1..Len(kept) |-> kept[Len(kept) + 1 - i]]

\* lines 126-135: drop the rows without a date, write the rest as YYYY-MM-DD
WithDates(rows, parsed) ==
    SelectSeq([i \in 1..Len(rows) |->
                  [rows[i] EXCEPT !.date =
                      IF parsed[i] = NaT THEN NaT ELSE Text(strftime(parsed[i]))]],
              LAMBDA r : r.date.kind # "nat")

\* _clean_dates(df)
_clean_dates(rows) ==
    WithDates(rows, ParsedDates([i \in 1..Len(rows) |-> rows[i].date]))

-----------------------------------------------------------------------------
(* ETLService._clean_descriptions *)

UnknownTransaction ==
    <<"U", "n", "k", "n", "o", "w", "n", " ", "T", "r", "a", "n", "s", "a", "c", "t", "i", "o", "n">>

MaxDescriptionLen == 500

\* every character with its replacement and whether it continues a run of
\* whitespace
MarkRuns(s) ==
    [i \in 1..Len(s) |->
        [c |-> IF s[i] \in Space THEN " " ELSE s[i],
         continues |-> i > 1 /\ s[i] \in Space /\ s[i - 1] \in Space]]

Unmark(m) == [i \in 1..Len(m) |-> m[i].c]

\* str.replace(r'\s+', ' ', regex=True)
CollapseSpaces(s) == Unmark(SelectSeq(MarkRuns(s), LAMBDA x : ~x.continues))

\* str.slice(0, 500)
Slice(s, n) == IF Len(s) <= n THEN s ELSE SubSeq(s, 1, n)

\* clean_description without the fillna of line 220
clean_description_nofill(v) ==
    IF IsNa(v) THEN <<>> ELSE Slice(CollapseSpaces(Strip(Str(v))), MaxDescriptionLen)

\* one description through fillna / astype(str) / strip / collapse / slice
clean_description(v) ==
    Slice(CollapseSpaces(Strip(IF IsNa(v) THEN UnknownTransaction ELSE Str(v))),
          MaxDescriptionLen)

\* _clean_descriptions(df)
_clean_descriptions(rows) ==
    SelectSeq([i \in 1..Len(rows) |->
                  [rows[i] EXCEPT !.description = Text(clean_description(rows[i].description))]],
              LAMBDA r : r.description.chars # <<>>)

-----------------------------------------------------------------------------
(* ETLService.transform *)

Roles == <<"date", "amount", "description">>

\* a DataFrame: column names in order, and for each column its cells
ColumnSet(df) == { df.columns[i] : i \in 1..Len(df.columns) }
NumRows(df) == IF Len(df.data) = 0 THEN 0 ELSE Len(df.data[1])
ColumnIndex(df, name) == CHOOSE i \in 1..Len(df.columns) : df.columns[i] = name
Column(df, name) == df.data[ColumnIndex(df, name)]

RoleName ==
    [date |-> <<"d", "a", "t", "e">>,
     amount |-> <<"a", "m", "o", "u", "n", "t">>,
     description |-> <<"d", "e", "s", "c", "r", "i", "p", "t", "i", "o", "n">>]

\* the columns named `role` after df.rename(columns=mapping)
CanonicalColumns(df, mapping, role) ==
    { i \in 1..Len(df.columns) :
        IF df.columns[i] \in DOMAIN mapping
        THEN mapping[df.columns[i]] = role
        ELSE df.columns[i] = RoleName[role] }

\* a row is all-null over the required columns
AllNull(r) == IsNa(r.date) /\ IsNa(r.amount) /\ IsNa(r.description)

RECURSIVE DropDuplicatesFrom(_, _)
DropDuplicatesFrom(rows, i) ==
    IF i > Len(rows) THEN <<>>
    ELSE (IF \A j \in 1..(i - 1) : rows[j] # rows[i] THEN <<rows[i]>> ELSE <<>>)
         \o DropDuplicatesFrom(rows, i + 1)

\* df.drop_duplicates(): keep the first of equal rows
DropDuplicates(rows) == DropDuplicatesFrom(rows, 1)

Ok(v) == [ok |-> TRUE, value |-> v]
Raise(msg) == [ok |-> FALSE, error |-> msg]

MsgTransformFailed == <<"D", "a", "t", "a", " ", "t", "r", "a", "n", "s", "f", "o", "r", "m", "a", "t", "i", "o", "n", " ", "f", "a", "i", "l", "e", "d", ":", " ">>
MsgMissingColumns == <<"M", "i", "s", "s", "i", "n", "g", " ", "r", "e", "q", "u", "i", "r", "e", "d", " ", "c", "o", "l", "u", "m", "n", "s", " ", "a", "f", "t", "e", "r", " ", "r", "e", "n", "a", "m", "e", ":", " ">>

\* repr() of a list of role names
RECURSIVE ReprItems(_)
ReprItems(names) ==
    IF names = <<>> THEN <<>>
    ELSE <<"'">> \o RoleName[names[1]] \o <<"'">>
         \o (IF Len(names) > 1 THEN <<",", " ">> ELSE <<>>) \o ReprItems(Tail(names))

ReprList(names) == <<"[">> \o ReprItems(names) \o <<"]">>
MsgNoValid == <<"N", "o", " ", "v", "a", "l", "i", "d", " ", "t", "r", "a", "n", "s", "a", "c", "t", "i", "o", "n", "s", " ", "f", "o", "u", "n", "d", " ", "a", "f", "t", "e", "r", " ", "c", "l", "e", "a", "n", "i", "n", "g", ".">>
MsgAmbiguousColumn == <<"a", "m", "b", "i", "g", "u", "o", "u", "s", " ", "c", "o", "l", "u", "m", "n">>

\* TransformResult without the df.empty test of line 84
TransformResult_empty(rows) == Ok(rows)

\* lines 84-88: no surviving row is an error, else the records
TransformResult(rows) ==
    IF rows = <<>> THEN Raise(MsgTransformFailed \o MsgNoValid) ELSE Ok(rows)

\* the steps of transform after the column selection (lines 70-88)
CleanRows(rows) ==
    TransformResult(
        SelectSeq(
            _classify_transactions(
                _clean_descriptions(
                    _clean_amounts(
                        _clean_dates(
                            DropDuplicates(SelectSeq(rows, LAMBDA r : ~AllNull(r))))))),
            LAMBDA r : ~IsNa(r.date) /\ ~IsNa(r.amount) /\ ~IsNa(r.description)))

\* the cells of the one column named `role` after the rename
RoleColumn(df, mapping, role) ==
    df.data[CHOOSE i \in CanonicalColumns(df, mapping, role) : TRUE]

\* df[required] as rows
RequiredRows(df, dates, amounts, descriptions) ==
    [i \in 1..NumRows(df) |->
        [date |-> dates[i], amount |-> amounts[i], description |-> descriptions[i]]]

\* transform(df, column_mapping)
transform(df, mapping) ==
    IF \E k \in 1..3 : CanonicalColumns(df, mapping, Roles[k]) = {}
    THEN Raise(MsgTransformFailed \o MsgMissingColumns
               \o ReprList(SelectSeq(Roles, LAMBDA r : CanonicalColumns(df, mapping, r) = {})))
    ELSE IF \E k \in 1..3 : Cardinality(CanonicalColumns(df, mapping, Roles[k])) > 1
    THEN Raise(MsgTransformFailed \o MsgAmbiguousColumn)
    ELSE CleanRows(RequiredRows(df, RoleColumn(df, mapping, "date"),
                                RoleColumn(df, mapping, "amount"),
                                RoleColumn(df, mapping, "description")))

-----------------------------------------------------------------------------
(* ColumnDetector *)

DATE_PATTERNS ==
    << <<"d", "a", "t", "e">>,
       <<"t", "r", "a", "n", "s", "_", "d", "a", "t", "e">>,
       <<"t", "r", "a", "n", "s", "a", "c", "t", "i", "o", "n", "_", "d", "a", "t", "e">>,
       <<"p", "o", "s", "t", "e", "d", "_", "d", "a", "t", "e">>,
       <<"v", "a", "l", "u", "e", "_", "d", "a", "t", "e">>,
       <<"t", "i", "m", "e", "s", "t", "a", "m", "p">>,
       <<"d", "a", "t", "e", "t", "i", "m", "e">> >>

AMOUNT_PATTERNS ==
    << <<"a", "m", "o", "u", "n", "t">>,
       <<"v", "a", "l", "u", "e">>,
       <<"d", "e", "b", "i", "t">>,
       <<"c", "r", "e", "d", "i", "t">>,
       <<"t", "r", "a", "n", "s", "a", "c", "t", "i", "o", "n", "_", "a", "m", "o", "u", "n", "t">>,
       <<"s", "u", "m">>,
       <<"t", "o", "t", "a", "l">>,
       <<"p", "r", "i", "c", "e">>,
       <<"a", "m", "t">> >>

DESCRIPTION_PATTERNS ==
    << <<"d", "e", "s", "c", "r", "i", "p", "t", "i", "o", "n">>,
       <<"m", "e", "m", "o">>,
       <<"d", "e", "t", "a", "i", "l", "s">>,
       <<"n", "a", "r", "r", "a", "t", "i", "v", "e">>,
       <<"p", "a", "r", "t", "i", "c", "u", "l", "a", "r", "s">>,
       <<"t", "r", "a", "n", "s", "a", "c", "t", "i", "o", "n", "_", "d", "e", "t", "a", "i", "l", "s">>,
       <<"r", "e", "m", "a", "r", "k", "s">>,
       <<"m", "e", "r", "c", "h", "a", "n", "t">>,
       <<"n", "a", "r", "r">> >>

SampleSize == 10

\* head(10)
HeadOf(cells, n) == IF Len(cells) <= n THEN cells ELSE SubSeq(cells, 1, n)

AsText(cells) == [i \in 1..Len(cells) |-> Text(Str(cells[i]))]

\* series.dropna().astype(str).head(10)
Sample(cells) == HeadOf(AsText(SelectSeq(cells, LAMBDA c : ~IsNa(c))), SampleSize)

\* lines 68-76 on the sample: month-first, then day-first
DateSample(sample) ==
    /\ sample # <<>>
    /\ \E dayfirst \in {FALSE, TRUE} :
           NotNaCount(to_datetime(sample, dayfirst)) >= Max(1, Len(sample) \div 2)

\* is_date_series(series)
is_date_series(cells) == DateSample(Sample(cells))

\* the characters is_numeric_series keeps: [\d.\-()CRcrDRdr,]
NumericKeep == Digit \cup {".", "-", "(", ")", "C", "R", "c", "r", "D", "d", ","}

\* lines 85-87 on one sampled value: does it parse as a number
NumericText(chars) ==
    ToFloat(RemoveChars(SelectSeq(chars, LAMBDA c : c \in NumericKeep), {","})) # None

\* lines 82-88 on the sample
NumericSample(sample) ==
    /\ sample # <<>>
    /\ Cardinality({ i \in 1..Len(sample) : NumericText(sample[i].chars) })
           >= Max(1, Len(sample) \div 2)

\* is_numeric_series(series)
is_numeric_series(cells) == NumericSample(Sample(cells))

Validate(validator, cells) ==
    IF validator = "date" THEN is_date_series(cells)
    ELSE IF validator = "numeric" THEN is_numeric_series(cells)
         ELSE TRUE

\* col.lower().strip()
Normalized(name) == Strip(ToLower(name))

\* the last column whose normalized name is that of column i
LastWithName(df, i) ==
    CHOOSE k \in 1..Len(df.columns) :
        /\ Normalized(df.columns[k]) = Normalized(df.columns[i])
        /\ \A j \in (k + 1)..Len(df.columns) :
               Normalized(df.columns[j]) # Normalized(df.columns[i])

\* column i is the first with its normalized name
FirstWithName(df, i) ==
    \A j \in 1..(i - 1) : Normalized(df.columns[j]) # Normalized(df.columns[i])

RECURSIVE NormalizedItemsFrom(_, _)
NormalizedItemsFrom(df, i) ==
    IF i > Len(df.columns) THEN <<>>
    ELSE (IF FirstWithName(df, i)
          THEN << <<Normalized(df.columns[i]), df.columns[LastWithName(df, i)]>> >>
          ELSE <<>>) \o NormalizedItemsFrom(df, i + 1)

\* normalized_to_original as the list of its items: a later column with the
\* same normalized name replaces the original of the earlier key in place
NormalizedToOriginal(df) == NormalizedItemsFrom(df, 1)

NotFound == [kind |-> "notfound"]
Found(name) == [kind |-> "found", name |-> name]

Least(S) == CHOOSE i \in S : \A j \in S : i <= j

\* any(p in norm for p in patterns)
NameMatches(norm, patterns) == \E k \in 1..Len(patterns) : Contains(norm, patterns[k])

\* a variant that prefers the content scan to the header match
FirstCandidate_content(df, items, byName, byContent, validator) ==
    IF validator # "none" /\ byContent # {} THEN Found(df.columns[Least(byContent)])
    ELSE IF byName # {} THEN Found(items[Least(byName)][2])
         ELSE NotFound

\* the return of find_column, from the candidates of its two loops
FirstCandidate(df, items, byName, byContent, validator) ==
    IF byName # {} THEN Found(items[Least(byName)][2])
    ELSE IF validator # "none" /\ byContent # {} THEN Found(df.columns[Least(byContent)])
         ELSE NotFound

\* the two loops of find_column over the items and the validated columns
FindIn(df, items, valid, patterns, validator) ==
    FirstCandidate(df, items,
        { i \in 1..Len(items) :
            NameMatches(items[i][1], patterns) /\ valid[ColumnIndex(df, items[i][2])] },
        { i \in 1..Len(df.columns) : valid[i] },
        validator)

\* find_column(patterns, validator); validator is "date", "numeric" or "none"
find_column(df, patterns, validator) ==
    FindIn(df, NormalizedToOriginal(df),
           [i \in 1..Len(df.columns) |-> Validate(validator, df.data[i])],
           patterns, validator)

\* mapping[col] = role, for a found column
Assign(mapping, found, role) ==
    IF found.kind = "found" THEN (found.name :> role) @@ mapping ELSE mapping

EmptyMapping == [x \in {} |-> "date"]

\* df[col].dtype == 'object' or a string dtype
is_object_dtype(cells) == \E i \in 1..Len(cells) : cells[i].kind = "text"

\* the fallback of lines 105-111: the first unclaimed column of object dtype
FirstFreeText(df, mapping, free) ==
    IF free # {} THEN (df.columns[Least(free)] :> "description") @@ mapping ELSE mapping

\* the description step of detect_columns (lines 100-111)
AssignDescription(df, mapping, desc_col) ==
    IF desc_col.kind = "found" THEN Assign(mapping, desc_col, "description")
    ELSE FirstFreeText(df, mapping,
             { i \in 1..Len(df.columns) :
                 df.columns[i] \notin DOMAIN mapping /\ is_object_dtype(df.data[i]) })

MappingValues(mapping) == { mapping[c] : c \in DOMAIN mapping }

\* a variant returning any non-empty mapping
DetectResult_nonempty(mapping) ==
    IF mapping # EmptyMapping
    THEN [kind |-> "mapping", map |-> mapping]
    ELSE None

\* lines 113-116
DetectResult(mapping) ==
    IF MappingValues(mapping) = {"date", "amount", "description"}
    THEN [kind |-> "mapping", map |-> mapping]
    ELSE None

RolePatterns == <<DATE_PATTERNS, AMOUNT_PATTERNS, DESCRIPTION_PATTERNS>>
RoleValidators == <<"date", "numeric", "none">>

\* lines 90-116 from the three find_column results
MapRoles(df, found) ==
    DetectResult(
        AssignDescription(df,
            Assign(Assign(EmptyMapping, found[1], "date"), found[2], "amount"),
            found[3]))

\* detect_columns(df): the mapping, or None
detect_columns(df) ==
    IF Len(df.columns) = 0 THEN None
    ELSE MapRoles(df, [k \in 1..3 |-> find_column(df, RolePatterns[k], RoleValidators[k])])

-----------------------------------------------------------------------------
(* ETLService.extract *)

MsgExtractFailed == <<"F", "i", "l", "e", " ", "e", "x", "t", "r", "a", "c", "t", "i", "o", "n", " ", "f", "a", "i", "l", "e", "d", ":", " ">>
MsgUnsupported == <<"U", "n", "s", "u", "p", "p", "o", "r", "t", "e", "d", " ", "f", "i", "l", "e", " ", "f", "o", "r", "m", "a", "t", ".", " ", "U", "s", "e", " ", "C", "S", "V", " ", "o", "r", " ", "E", "x", "c", "e", "l", ".">>
MsgEmpty == <<"U", "p", "l", "o", "a", "d", "e", "d", " ", "f", "i", "l", "e", " ", "i", "s", " ", "e", "m", "p", "t", "y", " ", "o", "r", " ", "u", "n", "r", "e", "a", "d", "a", "b", "l", "e", ".">>
MsgNoDetect == <<"C", "o", "u", "l", "d", " ", "n", "o", "t", " ", "a", "u", "t", "o", "-", "d", "e", "t", "e", "c", "t", " ", "d", "a", "t", "e", "/", "a", "m", "o", "u", "n", "t", "/", "d", "e", "s", "c", "r", "i", "p", "t", "i", "o", "n", " ", "c", "o", "l", "u", "m", "n", "s", ".", " ", "E", "n", "s", "u", "r", "e", " ", "y", "o", "u", "r", " ", "f", "i", "l", "e", " ", "c", "o", "n", "t", "a", "i", "n", "s", " ", "t", "h", "o", "s", "e", " ", "f", "i", "e", "l", "d", "s", " ", "o", "r", " ", "r", "e", "n", "a", "m", "e", " ", "h", "e", "a", "d", "e", "r", "s", ".">>

ExtCsv == <<".", "c", "s", "v">>
ExtXlsx == <<".", "x", "l", "s", "x">>
ExtXls == <<".", "x", "l", "s">>

\* a variant of df.empty that looks at the columns only
IsEmptyFrame_columns(df) == Len(df.columns) = 0

\* df.empty
IsEmptyFrame(df) == Len(df.columns) = 0 \/ NumRows(df) = 0

\* the extension test of lines 24 and 29
SupportedName(fname) ==
    EndsWith(fname, ExtCsv) \/ EndsWith(fname, ExtXlsx) \/ EndsWith(fname, ExtXls)

\* extract reaches line 37: the file was read and the frame is not empty
Readable(f) == SupportedName(ToLower(f.name)) /\ ~IsEmptyFrame(f.content)

\* lines 24-43 once the file is read, with the result of detect_columns
ExtractWith(f, fname, mapping) ==
    IF ~SupportedName(fname)
    THEN Raise(MsgExtractFailed \o MsgUnsupported)
    ELSE IF IsEmptyFrame(f.content)
    THEN Raise(MsgExtractFailed \o MsgEmpty)
    ELSE IF mapping = None
    THEN Raise(MsgExtractFailed \o MsgNoDetect)
    ELSE Ok([df |-> f.content, mapping |-> mapping.map])

\* extract(file): (df, mapping), or the ValueError it raises
extract(f) == ExtractWith(f, ToLower(f.name), detect_columns(f.content))

-----------------------------------------------------------------------------
(* Inputs of detection: tables built from a catalogue of columns *)

MaxCols == 4

T(s) == Text(s)

IsoDates == <<T(<<"2", "0", "2", "4", "-", "0", "1", "-", "1", "5">>), T(<<"2", "0", "2", "4", "-", "0", "1", "-", "1", "6">>)>>
SlashDates == <<T(<<"1", "5", "/", "0", "1", "/", "2", "0", "2", "4">>), T(<<"1", "6", "/", "0", "1", "/", "2", "0", "2", "4">>)>>
Floats == <<Num(Float(50, 0)), Num(Float(-1500, 0))>>
Words == <<T(<<"U", "b", "e", "r", " ", "r", "i", "d", "e">>), T(<<"S", "a", "l", "a", "r", "y", " ", "d", "e", "p", "o", "s", "i", "t">>)>>
Codes == <<T(<<"A", "-", "1">>), T(<<"B", "-", "2">>)>>

ColSpec(name, cells) == [name |-> name, cells |-> cells]

Catalogue ==
    { ColSpec(<<"T", "r", "a", "n", "s", " ", "D", "a", "t", "e">>, IsoDates),
      ColSpec(<<"V", "a", "l", "u", "e", " ", "D", "a", "t", "e">>, SlashDates),
      ColSpec(<<"D", "a", "t", "e">>, IsoDates),
      ColSpec(<<"A", "m", "o", "u", "n", "t">>, Floats),
      ColSpec(<<"D", "e", "b", "i", "t">>, Floats),
      ColSpec(<<"N", "a", "r", "r", "a", "t", "i", "o", "n">>, Words),
      ColSpec(<<"D", "e", "s", "c", "r", "i", "p", "t", "i", "o", "n">>, Words),
      ColSpec(<<"R", "e", "f">>, Codes),
      ColSpec(<<"B", "a", "l", "a", "n", "c", "e">>, Floats) }

RECURSIVE ColumnLists(_)
ColumnLists(n) ==
    IF n = 0 THEN { <<>> }
    ELSE UNION { { l \o <<c>> : c \in { x \in Catalogue :
                                         \A i \in 1..Len(l) : l[i].name # x.name } } :
                 l \in ColumnLists(n - 1) }

Frame(l) == [columns |-> [i \in 1..Len(l) |-> l[i].name],
             data |-> [i \in 1..Len(l) |-> l[i].cells]]

\* a header without rows
HeaderOnly(l) == [columns |-> [i \in 1..Len(l) |-> l[i].name],
                  data |-> [i \in 1..Len(l) |-> <<>>]]

Tables ==
    { Frame(l) : l \in UNION { ColumnLists(n) : n \in 0..MaxCols } }
    \cup { HeaderOnly(l) : l \in ColumnLists(1) \cup ColumnLists(2) }

FileNames ==
    { <<"b", "a", "n", "k", ".", "c", "s", "v">>,
      <<"b", "a", "n", "k", ".", "X", "L", "S", "X">>,
      <<"b", "a", "n", "k", ".", "x", "l", "s">>,
      <<"b", "a", "n", "k", ".", "p", "d", "f">>,
      <<"b", "a", "n", "k", "c", "s", "v">> }

CsvName == <<"b", "a", "n", "k", ".", "c", "s", "v">>

\* every table arrives as a CSV file; the short ones also under the other names
Files ==
    { [name |-> CsvName, content |-> t] : t \in Tables }
    \cup [name : FileNames, content : { t \in Tables : Len(t.columns) <= 2 }]

InitDetect ==
    /\ file \in Files
    /\ detected = Pending /\ extracted = Pending /\ transformed = Pending
    /\ stage = "loaded"
    /\ input = Idle /\ cleaned = Idle /\ classified = Idle
    /\ rules = <<>> /\ request = Idle /\ response = Idle
    /\ handle = Idle /\ frame = Idle
    /\ expenses = Idle /\ calls = Idle

DetectColumns ==
    /\ stage = "loaded"
    /\ Readable(file)
    /\ detected' = detect_columns(file.content)
    /\ stage' = "detected"
    /\ UNCHANGED <<input, cleaned, classified, file, extracted, transformed, rules, request, response, handle, frame, expenses, calls>>

Extract ==
    /\ stage = "detected" \/ (stage = "loaded" /\ ~Readable(file))
    /\ extracted' = extract(file)
    /\ stage' = "extracted"
    /\ UNCHANGED <<input, cleaned, classified, file, detected, transformed, rules, request, response, handle, frame, expenses, calls>>

Transform ==
    /\ stage = "extracted"
    /\ extracted.ok
    /\ transformed' = transform(extracted.value.df, extracted.value.mapping)
    /\ stage' = "transformed"
    /\ UNCHANGED <<input, cleaned, classified, file, detected, extracted, rules, request, response, handle, frame, expenses, calls>>

NextDetect == DetectColumns \/ Extract \/ Transform

SpecDetect == InitDetect /\ [][NextDetect]_vars

-----------------------------------------------------------------------------
(* Properties of detection, extract and transform, under SpecDetect *)

NameTransDate == <<"T", "r", "a", "n", "s", " ", "D", "a", "t", "e">>
NameValueDate == <<"V", "a", "l", "u", "e", " ", "D", "a", "t", "e">>
NameDate == <<"D", "a", "t", "e">>
NameAmount == <<"A", "m", "o", "u", "n", "t">>
NameDebit == <<"D", "e", "b", "i", "t">>
NameNarration == <<"N", "a", "r", "r", "a", "t", "i", "o", "n">>
NameDescription == <<"D", "e", "s", "c", "r", "i", "p", "t", "i", "o", "n">>

EndToEndTable ==
    [columns |-> <<NameTransDate, NameNarration, NameDebit>>,
     data |-> <<IsoDates, Words, Floats>>]

Transaction(d, a, tt, text) ==
    [date |-> Text(d), amount |-> a, description |-> Text(text), transaction_type |-> tt]

C6_MappingShape ==
    /\ (stage # "loaded" /\ detected \notin {None, Pending}) =>
          /\ detected.kind = "mapping"
          /\ Cardinality(DOMAIN detected.map) = 3
          /\ DOMAIN detected.map \subseteq ColumnSet(file.content)
          /\ \A role \in {"date", "amount", "description"} :
                Cardinality({ c \in DOMAIN detected.map : detected.map[c] = role }) = 1
    /\ (stage \in {"extracted", "transformed"} /\ detected = None) => ~extracted.ok
    /\ (stage \in {"extracted", "transformed"} /\ extracted.ok) =>
          /\ detected \notin {None, Pending}
          /\ extracted.value.mapping = detected.map

\* a four-column table was resolved and extract returned the mapping
C6_Witness ==
    /\ stage = "extracted"
    /\ Len(file.content.columns) = 4
    /\ detected \notin {None, Pending}
    /\ extracted.ok

\* the columns chosen by the three calls of find_column, in the order of the code
FoundRoles(df) == [k \in 1..3 |-> find_column(df, RolePatterns[k], RoleValidators[k])]

NeverReclaimed(found) ==
    /\ (found[1].kind = "found" /\ found[2].kind = "found") => found[2].name # found[1].name
    /\ (found[1].kind = "found" /\ found[3].kind = "found") => found[3].name # found[1].name
    /\ (found[2].kind = "found" /\ found[3].kind = "found") => found[3].name # found[2].name

\* the table has a date-valid column, a different amount-valid column and a
\* third column of text
Resolvable(df) ==
    \E i, j, k \in 1..Len(df.columns) :
        /\ i # j /\ i # k /\ j # k
        /\ is_date_series(df.data[i])
        /\ is_numeric_series(df.data[j])
        /\ is_object_dtype(df.data[k])

\* C7: a column already claimed for an earlier role is never selected for a
\* later role, and so detection succeeds on every non-empty table that has a
\* date-valid column, a different amount-valid column and a third text column.
C7_ClaimedNotReconsidered ==
    (stage = "detected" /\ Len(file.content.columns) > 0) =>
        /\ NeverReclaimed(FoundRoles(file.content))
        /\ Resolvable(file.content) => detected # None

HasExactColumns(df) ==
    /\ \E i \in 1..Len(df.columns) :
          /\ df.columns[i] = NameDate
          /\ \E dayfirst \in BOOLEAN : \A r \in 1..Len(df.data[i]) :
                ~IsNa(df.data[i][r]) /\ to_datetime(df.data[i], dayfirst)[r] # NaT
    /\ \E i \in 1..Len(df.columns) :
          /\ df.columns[i] = NameAmount
          /\ \A r \in 1..Len(df.data[i]) : df.data[i][r].kind = "num"
    /\ \E i \in 1..Len(df.columns) :
          /\ df.columns[i] = NameDescription
          /\ \A r \in 1..Len(df.data[i]) : df.data[i][r].kind = "text"

ExactMapping ==
    [kind |-> "mapping",
     map |-> (NameDate :> "date") @@ (NameAmount :> "amount")
             @@ (NameDescription :> "description")]

\* C8 as stated: for every table with a column "Date" of dates, a column
\* "Amount" of numbers and a column "Description" of text, in any order and
\* with any additional columns, detect_columns returns exactly
\* {Date: date, Amount: amount, Description: description}.
C8_ExactNamesAnyExtras ==
    (stage = "detected" /\ HasExactColumns(file.content)) => detected = ExactMapping

AllAliases == DATE_PATTERNS \o AMOUNT_PATTERNS \o DESCRIPTION_PATTERNS

\* every column other than Date, Amount and Description has a name whose
\* lower-cased, trimmed form contains no alias of any role
ExtrasAliasFree(df) ==
    \A i \in 1..Len(df.columns) :
        df.columns[i] \in {NameDate, NameAmount, NameDescription}
        \/ ~NameMatches(Normalized(df.columns[i]), AllAliases)

\* C8 (amended): for every table with at least one row and a column "Date" of
\* non-null dates that parse in one format, a column "Amount" of numbers and a column "Description" of
\* text, in any order and with any additional columns whose lower-cased,
\* trimmed names contain no date, amount or description alias, detect_columns
\* returns exactly {Date: date, Amount: amount, Description: description}.
C8_ExactNamesAliasFreeExtras ==
    (stage = "detected" /\ HasExactColumns(file.content) /\ NumRows(file.content) > 0
        /\ ExtrasAliasFree(file.content))
    => detected = ExactMapping

\* a table with the three exact columns and an alias-free numeric column
\* placed before "Amount" was resolved
C8_Witness ==
    /\ stage = "detected"
    /\ HasExactColumns(file.content)
    /\ ExtrasAliasFree(file.content)
    /\ Len(file.content.columns) = 4
    /\ \E i, j \in 1..4 :
          /\ i < j
          /\ file.content.columns[j] = NameAmount
          /\ file.content.columns[i] \notin {NameDate, NameAmount, NameDescription}
          /\ is_numeric_series(file.content.data[i])
    /\ detected = ExactMapping

\* the name, lower-cased, ends in none of .csv, .xlsx, .xls
ForeignName(name) ==
    \A ext \in { <<".", "c", "s", "v">>, <<".", "x", "l", "s", "x">>, <<".", "x", "l", "s">> } :
        ~EndsWith(ToLower(name), ext)

NoRowsOrColumns(df) ==
    Len(df.columns) = 0 \/ \A i \in 1..Len(df.data) : Len(df.data[i]) = 0

\* C11: when the file name ends in none of .csv, .xlsx, .xls (whatever the
\* case) or the table has no rows or no columns, extract raises, returns no
\* table and no mapping, and detect_columns is not run.
C11_RejectedBeforeDetection ==
    (stage \in {"extracted", "transformed"}
        /\ (ForeignName(file.name) \/ NoRowsOrColumns(file.content)))
    => /\ ~extracted.ok
       /\ "value" \notin DOMAIN extracted
       /\ extracted.error # MsgExtractFailed \o MsgNoDetect
       /\ detected = Pending
       /\ stage = "extracted"

\* a CSV file holding a header without rows was rejected
C11_Witness ==
    /\ stage = "extracted"
    /\ file.name = CsvName
    /\ Len(file.content.columns) = 2
    /\ NumRows(file.content) = 0
    /\ ~extracted.ok

-----------------------------------------------------------------------------
(* Inputs of the row-level stages: tables with the columns Date, Amount and
   Description, given row by row *)

MaxDates == 3

Iso1 == <<"2", "0", "2", "4", "-", "0", "1", "-", "1", "5">>
Iso2 == <<"2", "0", "2", "4", "-", "0", "1", "-", "1", "6">>
Ambiguous == <<"0", "1", "/", "0", "2", "/", "2", "0", "2", "4">>
DayFirstOnly == <<"1", "5", "/", "0", "1", "/", "2", "0", "2", "4">>
MonthFirstOnly == <<"0", "1", "/", "1", "5", "/", "2", "0", "2", "4">>
NoDate == <<"p", "e", "n", "d", "i", "n", "g">>

DateCells == { Text(Iso1), Text(Ambiguous), Text(DayFirstOnly), Text(MonthFirstOnly),
               Text(NoDate), Null }

Abc == <<"a", "b", "c">>

AmountCells == { Text(<<"5", "0", ".", "0", "0">>), Text(<<"-", "2", "0">>), Text(Abc), Null }

\* 499 letters, a space, a letter: longer than the limit of _clean_descriptions
LongText ==
    SelectSeq([i \in 1..(MaxDescriptionLen + 1) |-> IF i = MaxDescriptionLen THEN " " ELSE "a"],
              LAMBDA c : TRUE)

DescriptionCells ==
    { Words[1], Text(<<>>), Text(<<" ", " ">>), Null,
      Text(<<" ", "U", "b", "e", "r", " ", TAB, " ", " ", "E", "A", "T", "S", " ", " ", "t", "r", "i", "p", " ">>), Text(LongText) }

Row(d, a, t) == [date |-> d, amount |-> a, description |-> t]

DateRows == { Row(d, Text(<<"5", "0", ".", "0", "0">>), Words[1]) : d \in DateCells }

MixedRows ==
    { Row(Text(Iso1), a, Words[1]) : a \in AmountCells }
    \cup { Row(Text(Iso1), Text(<<"5", "0", ".", "0", "0">>), t) : t \in DescriptionCells }
    \cup { Row(Text(NoDate), Text(<<"5", "0", ".", "0", "0">>), Words[1]),
           Row(Text(Iso2), Text(Abc), Words[2]),
           Row(Text(Iso2), Text(<<"-", "2", "0">>), Words[2]) }

RECURSIVE SeqsOver(_, _)
SeqsOver(S, n) ==
    IF n = 0 THEN { <<>> } ELSE { q \o <<x>> : q \in SeqsOver(S, n - 1), x \in S }

RowFrames ==
    UNION { SeqsOver(DateRows, n) : n \in 1..MaxDates }
    \cup UNION { SeqsOver(MixedRows, n) : n \in 1..MaxRows }

\* the DataFrame of the rows, and the mapping of its three columns
FrameOfRows(rows) ==
    [columns |-> <<NameDate, NameAmount, NameDescription>>,
     data |-> << [i \in 1..Len(rows) |-> rows[i].date],
                 [i \in 1..Len(rows) |-> rows[i].amount],
                 [i \in 1..Len(rows) |-> rows[i].description] >>]

InitRows ==
    /\ input \in RowFrames
    /\ stage = "rows"
    /\ cleaned = Pending /\ extracted = Pending /\ transformed = Pending
    /\ classified = Idle /\ file = Idle /\ detected = Idle
    /\ rules = <<>> /\ request = Idle /\ response = Idle
    /\ handle = Idle /\ frame = Idle
    /\ expenses = Idle /\ calls = Idle

\* _clean_dates on the frame
CleanDates ==
    /\ stage = "rows"
    /\ cleaned' = _clean_dates(input)
    /\ stage' = "dated"
    /\ UNCHANGED <<input, classified, file, detected, extracted, transformed,
                   rules, request, response, handle, frame, expenses, calls>>

\* transform on the frame with the mapping of its columns
TransformRows ==
    /\ stage = "rows"
    /\ transformed' = transform(FrameOfRows(input), ExactMapping.map)
    /\ stage' = "rows_transformed"
    /\ UNCHANGED <<input, cleaned, classified, file, detected, extracted,
                   rules, request, response, handle, frame, expenses, calls>>

\* extract on the frame uploaded as a CSV file
ExtractRows ==
    /\ stage = "rows"
    /\ extracted' = extract([name |-> CsvName, content |-> FrameOfRows(input)])
    /\ stage' = "rows_extracted"
    /\ UNCHANGED <<input, cleaned, classified, file, detected, transformed,
                   rules, request, response, handle, frame, expenses, calls>>

\* transform on what extract returned
TransformExtracted ==
    /\ stage = "rows_extracted"
    /\ extracted.ok
    /\ transformed' = transform(extracted.value.df, extracted.value.mapping)
    /\ stage' = "rows_loaded"
    /\ UNCHANGED <<input, cleaned, classified, file, detected, extracted,
                   rules, request, response, handle, frame, expenses, calls>>

NextRows == CleanDates \/ TransformRows \/ ExtractRows \/ TransformExtracted

SpecRows == InitRows /\ [][NextRows]_vars

-----------------------------------------------------------------------------
(* Claims on the row-level stages *)

\* one value read under one convention for the whole column: "mdy" is
\* month-first, "dmy" is day-first; ISO text reads the same under both
ReadUnder(cell, convention) ==
    IF IsNa(cell) THEN NaT
    ELSE IF IsIsoText(Str(cell)) THEN ParseIso(Str(cell))
         ELSE ParseWithFormat(Str(cell), convention)

ColumnUnder(rows, convention) ==
    [i \in 1..Len(rows) |-> ReadUnder(rows[i].date, convention)]

Failures(parsed) == Len(parsed) - NotNaCount(parsed)

\* month-first, unless more than a third fail and day-first fails strictly less
ByThird(monthfirst, dayfirst) ==
    IF 3 * Failures(monthfirst) > Len(monthfirst)
       /\ Failures(dayfirst) < Failures(monthfirst)
    THEN dayfirst
    ELSE monthfirst

TextDates(rows) == \E i \in 1..Len(rows) : rows[i].date.kind = "text"

\* the column does not mix ISO text with slash text
OneNotation(rows) ==
    ~ /\ \E i \in 1..Len(rows) : ~IsNa(rows[i].date) /\ IsIsoText(Str(rows[i].date))
      /\ \E i \in 1..Len(rows) : ~IsNa(rows[i].date) /\ IsSlashText(Str(rows[i].date))

\* C13: for a non-numeric date column in one notation, _clean_dates returns the rows as read
\* month-first, or as read day-first when more than a third of the values
\* fail month-first and strictly fewer fail day-first: one convention for
\* every row of the column
C13_OneConventionByThird ==
    (stage = "dated" /\ TextDates(input) /\ OneNotation(input))
    => cleaned = WithDates(input, ByThird(ColumnUnder(input, "mdy"), ColumnUnder(input, "dmy")))

\* the rows transform cleans: not all-null, first of equal rows
Candidates(rows) == DropDuplicates(SelectSeq(rows, LAMBDA r : ~AllNull(r)))

DateColumn(rows) == [i \in 1..Len(rows) |-> rows[i].date]

\* the rows no normalizer rejects, given the parsed date column
Accepted(rows, parsed) ==
    { k \in 1..Len(rows) :
        /\ parsed[k] # NaT
        /\ ~IsNa(parse_amount(rows[k].amount))
        /\ clean_description(rows[k].description) # <<>> }

\* the transaction of an accepted row
AsTransaction(row, dt) ==
    [date |-> Text(strftime(dt)),
     amount |-> FAbs(parse_amount(row.amount)),
     description |-> Text(clean_description(row.description)),
     transaction_type |-> ttype(parse_amount(row.amount))]

RowsSurvive(rows, parsed, result) ==
    /\ result.ok <=> Accepted(rows, parsed) # {}
    /\ ~result.ok => result.error = MsgTransformFailed \o MsgNoValid
    /\ result.ok =>
          /\ Len(result.value) = Cardinality(Accepted(rows, parsed))
          /\ \A k \in Accepted(rows, parsed) :
                \E j \in 1..Len(result.value) : result.value[j] = AsTransaction(rows[k], parsed[k])

AbcTable(rows) ==
    \A i \in 1..Len(rows) :
        /\ rows[i].amount = Text(Abc)
        /\ rows[i].date.kind = "text"
        /\ ParseWithFormat(rows[i].date.chars, "iso") # NaT
        /\ rows[i].description.kind = "text"
        /\ Strip(rows[i].description.chars) # <<>>

NoSurvivingRows == Raise(MsgTransformFailed \o MsgNoValid)

\* C15 as stated: a table whose amount column holds only "abc" passes extract
\* and fails in transform with 'No valid transactions found after cleaning.'
C15_AllAbcPipelineNoSurvivingRows ==
    AbcTable(input)
    => /\ stage = "rows_extracted" => extracted.ok
       /\ stage = "rows_loaded" => transformed = NoSurvivingRows

NoNumericColumn(df) ==
    \A i \in 1..Len(df.columns) : ~is_numeric_series(df.data[i])

\* C15: transform, given the mapping of the three columns, fails on such a
\* table with 'No valid transactions found after cleaning.'; extract rejects
\* the table with the detection failure when no column of it passes the
\* numeric check
C15_AllAbcTransformNoSurvivingRows ==
    AbcTable(input)
    => /\ stage = "rows_transformed" => transformed = NoSurvivingRows
       /\ (stage = "rows_extracted" /\ NoNumericColumn(FrameOfRows(input)))
            => extracted = Raise(MsgExtractFailed \o MsgNoDetect)

\* a table of two rows with the amounts "abc" was transformed
C15_Witness ==
    /\ stage = "rows_transformed"
    /\ AbcTable(input)
    /\ Len(input) = 2
    /\ input[1] # input[2]
    /\ ~transformed.ok

\* the rows with a date and an amount that are accepted
DatedAndPriced(rows, parsed) ==
    { k \in 1..Len(rows) : parsed[k] # NaT /\ ~IsNa(parse_amount(rows[k].amount)) }

\* the output has the transaction of the row, described by the placeholder
HasPlaceholder(result, row, dt) ==
    /\ result.ok
    /\ \E j \in 1..Len(result.value) :
          result.value[j] = [date |-> Text(strftime(dt)),
                             amount |-> FAbs(parse_amount(row.amount)),
                             description |-> Text(UnknownTransaction),
                             transaction_type |-> ttype(parse_amount(row.amount))]

PlaceholderFor(blank, rows, parsed, result) ==
    \A k \in DatedAndPriced(rows, parsed) :
        rows[k].description \in blank => HasPlaceholder(result, rows[k], parsed[k])

\* C16 as stated: a row with a valid date and amount whose description is null
\* or "" is in the output with the description "Unknown Transaction"
C16_NullAndEmptyGetPlaceholder ==
    stage = "rows_transformed"
    => PlaceholderFor({Null, Text(<<>>)}, Candidates(input),
                      ParsedDates(DateColumn(Candidates(input))), transformed)

NotEmptyText(rows) == { k \in 1..Len(rows) : rows[k].description # Text(<<>>) }

\* no transaction comes from a row described by ""
EmptyDropped(rows, result) ==
    IF result.ok THEN Len(result.value) <= Cardinality(NotEmptyText(rows))
    ELSE result = NoSurvivingRows

\* C16: a row with a valid date and amount whose description is null is in
\* the output with the description "Unknown Transaction"; a row whose
\* description is "" is dropped
C16_NullGetsPlaceholder ==
    stage = "rows_transformed"
    => /\ PlaceholderFor({Null}, Candidates(input),
                         ParsedDates(DateColumn(Candidates(input))), transformed)
       /\ EmptyDropped(Candidates(input), transformed)

\* a row with a null description and a row with the description "" gave one
\* transaction
C16_Witness ==
    /\ stage = "rows_transformed"
    /\ Len(input) = 2
    /\ \E i, j \in 1..2 : input[i].description = Null /\ input[j].description = Text(<<>>)
    /\ transformed.ok
    /\ Len(transformed.value) = 1
    /\ transformed.value[1].description = Text(UnknownTransaction)

Trimmed(s) ==
    /\ s # <<>>
    /\ Len(s) <= MaxDescriptionLen
    /\ s[1] \notin Space /\ s[Len(s)] \notin Space
    /\ \A i \in 1..(Len(s) - 1) : ~(s[i] \in Space /\ s[i + 1] \in Space)

\* C17: every description transform returns is non-empty, at most 500
\* characters long, without whitespace at either end and without a run of
\* two whitespace characters
C17_DescriptionsTrimmed ==
    (stage = "rows_transformed" /\ transformed.ok)
    => \A j \in 1..Len(transformed.value) : Trimmed(transformed.value[j].description.chars)

-----------------------------------------------------------------------------
(* Reading a CSV upload: the two pd.read_csv calls of extract (lines 24-28) *)

\* bytes are one-character strings for ASCII and named tokens above 0x7F
LF == "LF"
BOM == <<"0xEF", "0xBB", "0xBF">>
HighBytes == {"0xE9", "0xEF", "0xBB", "0xBF"}

\* the index of the first byte the UTF-8 decoder rejects, 0 when there is none;
\* EF BB BF is the only multi-byte sequence of the inputs that is well formed
RECURSIVE FirstInvalidFrom(_, _)
FirstInvalidFrom(b, i) ==
    IF i > Len(b) THEN 0
    ELSE IF b[i] \notin HighBytes THEN FirstInvalidFrom(b, i + 1)
    ELSE IF i + 2 <= Len(b) /\ SubSeq(b, i, i + 2) = BOM THEN FirstInvalidFrom(b, i + 3)
    ELSE i

FirstInvalid(b) == FirstInvalidFrom(b, 1)

\* bytes.decode('utf-8') of well-formed input
RECURSIVE Utf8From(_, _)
Utf8From(b, i) ==
    IF i > Len(b) THEN <<>>
    ELSE IF b[i] \notin HighBytes THEN <<b[i]>> \o Utf8From(b, i + 1)
    ELSE <<"U+FEFF">> \o Utf8From(b, i + 3)

\* the utf-8-sig codec drops one leading byte-order mark
Utf8SigDecode(b) ==
    IF Len(b) >= 3 /\ SubSeq(b, 1, 3) = BOM THEN Utf8From(b, 4) ELSE Utf8From(b, 1)

\* the latin1 codec maps every byte to the character of the same number
Latin1Char(c) ==
    CASE c = "0xE9" -> "U+00E9"
      [] c = "0xEF" -> "U+00EF"
      [] c = "0xBB" -> "U+00BB"
      [] c = "0xBF" -> "U+00BF"
      [] OTHER -> c

Latin1Decode(b) == [i \in 1..Len(b) |-> Latin1Char(b[i])]

\* text.split(sep), sep one character
RECURSIVE SplitFrom(_, _, _, _)
SplitFrom(text, sep, i, start) ==
    IF i > Len(text) THEN <<SubSeq(text, start, Len(text))>>
    ELSE IF text[i] = sep
         THEN <<SubSeq(text, start, i - 1)>> \o SplitFrom(text, sep, i + 1, i + 1)
         ELSE SplitFrom(text, sep, i + 1, start)

Split(text, sep) == SplitFrom(text, sep, 1, 1)

MsgNoColumns == <<"N", "o", " ", "c", "o", "l", "u", "m", "n", "s", " ", "t", "o", " ", "p", "a", "r", "s", "e", " ", "f", "r", "o", "m", " ", "f", "i", "l", "e">>
MsgTokenizing == <<"E", "r", "r", "o", "r", " ", "t", "o", "k", "e", "n", "i", "z", "i", "n", "g", " ", "d", "a", "t", "a">>

\* a record of the parser: missing trailing fields are NaN
PadRecord(fields, width) ==
    [k \in 1..width |-> IF k <= Len(fields) THEN Text(fields[k]) ELSE Null]

\* the frame of a header and its records; when every record has one field
\* more than the header, the first field is the index and not a column
FrameOfRecords(header, records, indexed) ==
    IF \E r \in 1..Len(records) :
          Len(records[r]) > Len(header) + (IF indexed THEN 1 ELSE 0)
    THEN Raise(MsgTokenizing)
    ELSE Ok([columns |-> header,
             data |-> [k \in 1..Len(header) |->
                         [r \in 1..Len(records) |->
                            PadRecord(IF indexed THEN Tail(records[r]) ELSE records[r],
                                      Len(header))[k]]]])

\* the parser on the non-blank lines of the text
ParseLines(lines) ==
    IF lines = <<>> THEN Raise(MsgNoColumns)
    ELSE FrameOfRecords(Split(lines[1], ","),
                        [r \in 1..Len(lines) - 1 |-> Split(lines[r + 1], ",")],
                        /\ Len(lines) > 1
                        /\ \A r \in 2..Len(lines) :
                              Len(Split(lines[r], ",")) = Len(Split(lines[1], ",")) + 1)

\* pd.read_csv on decoded text
ParseCsv(text) == ParseLines(SelectSeq(Split(text, LF), LAMBDA l : l # <<>>))

\* what is left to read on the file object
Unread(h) == SubSeq(h.bytes, h.pos + 1, Len(h.bytes))

-----------------------------------------------------------------------------
(* Inputs of the CSV reader *)

MaxLines == 2

HeaderLine == <<"d", ",", "x", LF>>

DataLines ==
    { <<"a", ",", "1", LF>>, <<"0xE9", ",", "2", LF>>, <<"b", "0xE9", ",", "3", LF>> }

RECURSIVE Bodies(_)
Bodies(n) ==
    IF n = 0 THEN { <<>> }
    ELSE { b \o l : b \in Bodies(n - 1), l \in DataLines }

CsvBytes ==
    { pre \o HeaderLine \o body :
        pre \in { <<>>, BOM }, body \in UNION { Bodies(n) : n \in 0..MaxLines } }

InitRead ==
    /\ handle \in { [bytes |-> b, pos |-> 0] : b \in CsvBytes }
    /\ frame = Pending
    /\ stage = "opened"
    /\ input = Idle /\ cleaned = Idle /\ classified = Idle
    /\ file = Idle /\ detected = Idle /\ extracted = Idle /\ transformed = Idle
    /\ rules = <<>> /\ request = Idle /\ response = Idle
    /\ expenses = Idle /\ calls = Idle

\* line 26 on well-formed bytes: the whole stream is read and parsed
ReadUtf8 ==
    /\ stage = "opened"
    /\ FirstInvalid(Unread(handle)) = 0
    /\ frame' = ParseCsv(Utf8SigDecode(Unread(handle)))
    /\ handle' = [handle EXCEPT !.pos = Len(handle.bytes)]
    /\ stage' = "read"
    /\ UNCHANGED <<input, cleaned, classified, file, detected, extracted,
                   transformed, rules, request, response, expenses, calls>>

\* line 26 raising UnicodeDecodeError: the reader has consumed the stream at
\* least up to the byte it rejects, and as far as its buffer reaches
DecodeError ==
    /\ stage = "opened"
    /\ FirstInvalid(Unread(handle)) # 0
    /\ \E p \in handle.pos + FirstInvalid(Unread(handle))..Len(handle.bytes) :
          handle' = [handle EXCEPT !.pos = p]
    /\ stage' = "utf8_failed"
    /\ UNCHANGED <<input, cleaned, classified, file, detected, extracted,
                   transformed, rules, request, response, frame, expenses, calls>>

\* line 28: the retry reads the same file object, from where it stands
ReadLatin1 ==
    /\ stage = "utf8_failed"
    /\ frame' = ParseCsv(Latin1Decode(Unread(handle)))
    /\ handle' = [handle EXCEPT !.pos = Len(handle.bytes)]
    /\ stage' = "read"
    /\ UNCHANGED <<input, cleaned, classified, file, detected, extracted,
                   transformed, rules, request, response, expenses, calls>>

NextRead == ReadUtf8 \/ DecodeError \/ ReadLatin1

SpecRead == InitRead /\ [][NextRead]_vars

\* C12: for CSV bytes that are not valid UTF-8 the Latin-1 retry decodes the
\* whole byte stream from its first byte and does not fail, so the table read
\* has every row of the file.
C12_RetryReadsWholeFile ==
    (stage = "read" /\ FirstInvalid(handle.bytes) # 0) =>
        /\ frame.ok
        /\ frame = ParseCsv(Latin1Decode(handle.bytes))

-----------------------------------------------------------------------------
(* CategoryRule and ExpenseViewSet.upload *)

\* an ordering by priority that puts the older of two equal rules first
RuleBefore_oldest(a, b) ==
    \/ a.priority > b.priority
    \/ a.priority = b.priority /\ a.created_at < b.created_at

\* rule a comes before rule b in Meta.ordering ['-priority', '-created_at'];
\* created_at grows with the position in the table
RuleBefore(a, b) ==
    \/ a.priority > b.priority
    \/ a.priority = b.priority /\ a.created_at > b.created_at

RECURSIVE OrderRules(_)
OrderRules(S) ==
    IF S = {} THEN <<>>
    ELSE <<CHOOSE a \in S : \A b \in S \ {a} : RuleBefore(a, b)>>
         \o OrderRules(S \ {CHOOSE a \in S : \A b \in S \ {a} : RuleBefore(a, b)})

\* CategoryRule.objects.filter(user=user)
UserRules(table, user) ==
    OrderRules({ [table[i] EXCEPT !.created_at = i] : i \in { j \in 1..Len(table) : table[j].user = user } })

\* CategoryRule.matches(description)
matches(rule, description) ==
    Contains(ToLower(description), ToLower(rule.description_keyword))

NoCategory == [kind |-> "absent"]

\* the rule loop of upload for one transaction (lines 368-372)
FirstMatch(user_rules, hits) ==
    IF hits = {} THEN NoCategory
    ELSE [kind |-> "category", pk |-> user_rules[Least(hits)].category.pk,
          name |-> user_rules[Least(hits)].category.name]

SuggestCategory(user_rules, description) ==
    FirstMatch(user_rules,
               { i \in 1..Len(user_rules) : matches(user_rules[i], description.chars) })

\* lines 365-372: every transaction through the user's rules
ApplyRules(transactions, user_rules) ==
    [i \in 1..Len(transactions) |->
        [date |-> transactions[i].date,
         amount |-> transactions[i].amount,
         description |-> transactions[i].description,
         transaction_type |-> transactions[i].transaction_type,
         category |-> SuggestCategory(user_rules, transactions[i].description)]]

MsgNoFile == <<"N", "o", " ", "f", "i", "l", "e", " ", "p", "r", "o", "v", "i", "d", "e", "d">>

BadRequest(msg) == [status |-> 400, error |-> msg]

\* lines 374-378
Preview(transactions, mapping) ==
    [status |-> 200, transactions |-> transactions, column_mapping |-> mapping,
     total_count |-> Len(transactions)]

\* lines 362-383 once extract succeeded
UploadTransformed(extract_value, transformed_result, user_rules) ==
    IF ~transformed_result.ok THEN BadRequest(transformed_result.error)
    ELSE Preview(ApplyRules(transformed_result.value, user_rules), extract_value.mapping)

\* lines 358-383 from the result of extract
UploadExtracted(extract_result, user_rules) ==
    IF ~extract_result.ok THEN BadRequest(extract_result.error)
    ELSE UploadTransformed(extract_result.value,
                           transform(extract_result.value.df, extract_result.value.mapping),
                           user_rules)

NoFile == [kind |-> "nofile"]

\* upload(request): the handler reads request.FILES['file'] and request.user;
\* it never reads date_column, amount_column or description_column
upload(req, rule_table) ==
    IF req.file = NoFile THEN BadRequest(MsgNoFile)
    ELSE UploadExtracted(extract(req.file), UserRules(rule_table, req.user))

-----------------------------------------------------------------------------
(* Inputs of the upload handler *)

Users == {"alice", "bob"}

Transport == [pk |-> 1, name |-> "Transport"]
Food == [pk |-> 2, name |-> "Food"]
Income == [pk |-> 3, name |-> "Income"]

Rule(u, kw, cat, prio) ==
    [user |-> u, description_keyword |-> kw, category |-> cat, priority |-> prio,
     created_at |-> 0]

InitialRules ==
    << Rule("alice", <<"u", "b", "e", "r">>, Transport, 1),
       Rule("alice", <<"U", "b", "e", "r", " ", "R", "i", "d", "e">>, Food, 5),
       Rule("bob", <<"s", "a", "l", "a", "r", "y">>, Income, 0) >>

UploadCatalogue ==
    { c \in Catalogue : c.name \in { <<"T", "r", "a", "n", "s", " ", "D", "a", "t", "e">>, <<"D", "e", "b", "i", "t">>, <<"N", "a", "r", "r", "a", "t", "i", "o", "n">>, <<"R", "e", "f">> } }

RECURSIVE UploadColumnLists(_)
UploadColumnLists(n) ==
    IF n = 0 THEN { <<>> }
    ELSE UNION { { l \o <<c>> : c \in { x \in UploadCatalogue :
                                         \A i \in 1..Len(l) : l[i].name # x.name } } :
                 l \in UploadColumnLists(n - 1) }

UploadTables == { Frame(l) : l \in UNION { UploadColumnLists(n) : n \in 0..MaxCols } }

NoOverride == [kind |-> "absent"]
Override(name) == [kind |-> "given", name |-> name]

NoOverrides == [date_column |-> NoOverride, amount_column |-> NoOverride,
                description_column |-> NoOverride]

\* the override parameters sent with a table: none, one role, or all three
\* roles on distinct columns of the table
OverridePlans(df) ==
    { NoOverrides }
    \cup { [NoOverrides EXCEPT !.date_column = Override(c)] : c \in ColumnSet(df) }
    \cup { [date_column |-> Override(d), amount_column |-> Override(a),
            description_column |-> Override(t)] :
             <<d, a, t>> \in { x \in ColumnSet(df) \X ColumnSet(df) \X ColumnSet(df) :
                                 x[1] # x[2] /\ x[1] # x[3] /\ x[2] # x[3] } }

UploadRequest(u, f, o) ==
    [user |-> u, file |-> f, date_column |-> o.date_column,
     amount_column |-> o.amount_column, description_column |-> o.description_column]

UploadRequests ==
    UNION { { UploadRequest(u, [name |-> CsvName, content |-> df], o) :
                u \in Users, o \in OverridePlans(df) } : df \in UploadTables }
    \cup { UploadRequest(u, [name |-> n, content |-> df], NoOverrides) :
             u \in Users, n \in FileNames, df \in { x \in UploadTables : Len(x.columns) = 3 } }
    \cup { UploadRequest(u, NoFile, NoOverrides) : u \in Users }

Init ==
    /\ request \in UploadRequests
    /\ response = Pending
    /\ rules = InitialRules
    /\ handle = Idle /\ frame = Idle
    /\ input = Idle /\ cleaned = Idle /\ classified = Idle /\ stage = "request"
    /\ file = Idle /\ detected = Idle /\ extracted = Idle /\ transformed = Idle
    /\ expenses = Idle /\ calls = Idle

Upload ==
    /\ response = Pending
    /\ response' = upload(request, rules)
    /\ UNCHANGED <<input, cleaned, classified, stage, file, detected, extracted,
                   transformed, rules, request, handle, frame, expenses, calls>>

Next == Upload

Spec == Init /\ [][Next]_vars

-----------------------------------------------------------------------------
(* Properties of the upload handler, under Spec *)

Overrides(req) ==
    [date |-> req.date_column, amount |-> req.amount_column,
     description |-> req.description_column]

Answered == response # Pending /\ request.file # NoFile

DetectionFailure == BadRequest(MsgExtractFailed \o MsgNoDetect)

\* C9: an override naming a column of the uploaded table makes that column
\* carry the role in the returned column mapping, and an upload that gives
\* overrides for all three roles is never rejected for failed detection.
C9_OverridesUsed ==
    (Answered /\ request.file.name = CsvName) =>
        /\ \A role \in {"date", "amount", "description"} :
              (/\ Overrides(request)[role].kind = "given"
               /\ Overrides(request)[role].name \in ColumnSet(request.file.content)
               /\ response.status = 200)
              => /\ Overrides(request)[role].name \in DOMAIN response.column_mapping
                 /\ response.column_mapping[Overrides(request)[role].name] = role
        /\ (\A role \in {"date", "amount", "description"} :
               /\ Overrides(request)[role].kind = "given"
               /\ Overrides(request)[role].name \in ColumnSet(request.file.content))
           => response # DetectionFailure

\* C10: when column detection fails, the error returned by upload contains
\* the name of every column of the table.
C10_ErrorListsColumns ==
    (Answered /\ response = DetectionFailure) =>
        \A c \in ColumnSet(request.file.content) : Contains(response.error, c)

-----------------------------------------------------------------------------
(* The rule store: CategoryRuleViewSet, Expense.save and
   ExpenseViewSet.update_category *)

\* str.split(): the maximal runs of characters that are not whitespace
WordStarts(s) ==
    SelectSeq([i \in 1..Len(s) |-> i],
              LAMBDA i : s[i] \notin Space /\ (i = 1 \/ s[i - 1] \in Space))

WordEnd(s, i) == Least({ j \in i..Len(s) : j = Len(s) \/ s[j + 1] \in Space })

split(s) ==
    [k \in 1..Len(WordStarts(s)) |-> SubSeq(s, WordStarts(s)[k], WordEnd(s, WordStarts(s)[k]))]

\* sep.join(words)
RECURSIVE join(_, _)
join(sep, words) ==
    IF Len(words) = 0 THEN <<>>
    ELSE IF Len(words) = 1 THEN words[1]
         ELSE words[1] \o sep \o join(sep, Tail(words))

KeywordWords == 2
KeywordFallbackLen == 20

\* the keyword of lines 637-638, cut to 20 characters whenever it is one word
keyword_of_cut(description) ==
    IF Len(split(description)) > 1
    THEN join(<<" ">>, HeadOf(split(description), KeywordWords))
    ELSE Slice(description, KeywordFallbackLen)

\* lines 637-638: the keyword update_category derives from a description
keyword_of(description) ==
    IF Len(split(description)) > 0
    THEN join(<<" ">>, HeadOf(split(description), KeywordWords))
    ELSE Slice(description, KeywordFallbackLen)

\* the rows with the key (user, description_keyword)
FindRule(table, u, kw) ==
    { i \in 1..Len(table) : table[i].user = u /\ table[i].description_keyword = kw }

\* an insert that no constraint guards
Collides_unchecked(table, rule) == FALSE

\* unique_together = ['user', 'description_keyword']: the insert is refused
Collides(table, rule) == FindRule(table, rule.user, rule.description_keyword) # {}

\* CategoryRule.objects.create(...) under the constraint
InsertRule(table, rule) == IF Collides(table, rule) THEN table ELSE Append(table, rule)

\* obj.category = category; obj.save() on the row with the key
SetCategory(table, u, kw, cat) ==
    [i \in 1..Len(table) |->
        IF i \in FindRule(table, u, kw) THEN [table[i] EXCEPT !.category = cat] ELSE table[i]]

AsCategory(cat) == [kind |-> "category", pk |-> cat.pk, name |-> cat.name]

\* Expense.save that consults the rules whatever the category
save_always(expense, table) ==
    [expense EXCEPT !.category =
        SuggestCategory(UserRules(table, expense.user), Text(expense.description))]

\* Expense.save(): a new expense without category takes the category of the
\* first matching rule of its user
save(expense, table) ==
    IF expense.category = NoCategory
    THEN [expense EXCEPT !.category =
             SuggestCategory(UserRules(table, expense.user), Text(expense.description))]
    ELSE expense

\* the update of lines 647-652 without the filter category__isnull=True
UpdateSimilar_all(table, u, kw, cat) ==
    [i \in 1..Len(table) |->
        IF table[i].user = u /\ Contains(ToLower(table[i].description), ToLower(kw))
        THEN [table[i] EXCEPT !.category = AsCategory(cat)]
        ELSE table[i]]

\* description__icontains=keyword, category__isnull=True, then update(category=...)
UpdateSimilar(table, u, kw, cat) ==
    [i \in 1..Len(table) |->
        IF /\ table[i].user = u
           /\ table[i].category = NoCategory
           /\ Contains(ToLower(table[i].description), ToLower(kw))
        THEN [table[i] EXCEPT !.category = AsCategory(cat)]
        ELSE table[i]]

-----------------------------------------------------------------------------
(* Inputs of the rule store *)

MaxExpenses == 2
MaxRules == 4
MaxCalls == 2

UberEatsTrip == <<"U", "B", "E", "R", " ", "E", "A", "T", "S", " ", "T", "R", "I", "P">>
SpacedWords == <<" ", "U", "b", "e", "r", " ", TAB, "r", "i", "d", "e", " ">>

\* the expenses created and the rows uploaded: user and description
NewExpenses == { <<"alice", UberEatsTrip>>, <<"alice", SpacedWords>>, <<"bob", UberEatsTrip>> }

ExampleRules ==
    << Rule("alice", <<"u", "b", "e", "r">>, Transport, 1),
       Rule("alice", <<"u", "b", "e", "r", " ", "e", "a", "t", "s">>, Food, 5) >>

\* the rules created: one that exists, one that ties with the priority of
\* an older rule, one of another user
NewRules ==
    { Rule("alice", <<"u", "b", "e", "r">>, Income, 5),
      Rule("alice", <<"t", "r", "i", "p">>, Income, 5),
      Rule("bob", <<"u", "b", "e", "r", " ", "e", "a", "t", "s">>, Income, 5) }

InitRules ==
    /\ rules = ExampleRules
    /\ expenses = <<>>
    /\ calls = Idle
    /\ request = Pending /\ response = Pending
    /\ handle = Idle /\ frame = Idle
    /\ input = Idle /\ cleaned = Idle /\ classified = Idle /\ stage = "rules"
    /\ file = Idle /\ detected = Idle /\ extracted = Idle /\ transformed = Idle

\* POST /category-rules/: perform_create saves the rule for the request's user
CreateRule(rule) ==
    /\ Len(rules) < MaxRules
    /\ rules' = InsertRule(rules, rule)
    /\ UNCHANGED <<input, cleaned, classified, stage, file, detected, extracted,
                   transformed, request, response, handle, frame, expenses, calls>>

\* Expense.objects.create(...) without category: Expense.save applies the rules
SaveExpense(u, d) ==
    /\ Len(expenses) < MaxExpenses
    /\ expenses' = Append(expenses,
                          save([user |-> u, description |-> d, category |-> NoCategory], rules))
    /\ UNCHANGED <<input, cleaned, classified, stage, file, detected, extracted,
                   transformed, rules, request, response, handle, frame, calls>>

OneRowFile(d) ==
    [name |-> CsvName,
     content |-> FrameOfRows(<<Row(Text(Iso1), Text(<<"5", "0", ".", "0", "0">>), Text(d))>>)]

\* an upload that stores the rows it previews
PreviewUpload_saving(u, d) ==
    /\ response = Pending
    /\ request' = UploadRequest(u, OneRowFile(d), NoOverrides)
    /\ response' = upload(UploadRequest(u, OneRowFile(d), NoOverrides), rules)
    /\ expenses' = Append(expenses,
                          save([user |-> u, description |-> d, category |-> NoCategory], rules))
    /\ UNCHANGED <<input, cleaned, classified, stage, file, detected, extracted,
                   transformed, rules, handle, frame, calls>>

\* POST /expenses/upload/ with a file of one row
PreviewUpload(u, d) ==
    /\ response = Pending
    /\ request' = UploadRequest(u, OneRowFile(d), NoOverrides)
    /\ response' = upload(UploadRequest(u, OneRowFile(d), NoOverrides), rules)
    /\ UNCHANGED <<input, cleaned, classified, stage, file, detected, extracted,
                   transformed, rules, handle, frame, expenses, calls>>

\* the uploads that are refused: no file, and a file whose only row has an
\* empty description
RejectedFiles == { NoFile, OneRowFile(<<>>) }

\* POST /expenses/upload/ answered with 400
RejectedUpload(u, f) ==
    /\ response = Pending
    /\ request' = UploadRequest(u, f, NoOverrides)
    /\ response' = upload(UploadRequest(u, f, NoOverrides), rules)
    /\ UNCHANGED <<input, cleaned, classified, stage, file, detected, extracted,
                   transformed, rules, handle, frame, expenses, calls>>

\* update_category, lines 619-638: the expense gets the category and the
\* keyword is derived; without create_rule the request ends here
BeginUpdate(c, e, cat, create_rule) ==
    /\ calls[c].pc = "idle"
    /\ expenses' = [expenses EXCEPT ![e].category = AsCategory(cat)]
    /\ calls' = [calls EXCEPT ![c] =
                    IF create_rule
                    THEN [pc |-> "get", user |-> expenses[e].user, category |-> cat,
                          keyword |-> keyword_of(expenses[e].description)]
                    ELSE [pc |-> "done"]]
    /\ UNCHANGED <<input, cleaned, classified, stage, file, detected, extracted,
                   transformed, rules, request, response, handle, frame>>

\* update_or_create, the get of get_or_create: an existing rule is locked and
\* takes the category
GetRule(c) ==
    /\ calls[c].pc = "get"
    /\ IF FindRule(rules, calls[c].user, calls[c].keyword) # {}
       THEN /\ rules' = SetCategory(rules, calls[c].user, calls[c].keyword, calls[c].category)
            /\ calls' = [calls EXCEPT ![c].pc = "similar"]
       ELSE /\ rules' = rules
            /\ calls' = [calls EXCEPT ![c].pc = "create"]
    /\ UNCHANGED <<input, cleaned, classified, stage, file, detected, extracted,
                   transformed, request, response, handle, frame, expenses>>

\* update_or_create, the create of get_or_create: the insert, or after its
\* IntegrityError the get and the update of the rule another request inserted
CreateOrUpdate(c) ==
    /\ calls[c].pc = "create"
    /\ rules' = SetCategory(
                   InsertRule(rules, Rule(calls[c].user, calls[c].keyword, calls[c].category, 0)),
                   calls[c].user, calls[c].keyword, calls[c].category)
    /\ calls' = [calls EXCEPT ![c].pc = "similar"]
    /\ UNCHANGED <<input, cleaned, classified, stage, file, detected, extracted,
                   transformed, request, response, handle, frame, expenses>>

\* lines 647-652: the uncategorized expenses containing the keyword
ApplySimilar(c) ==
    /\ calls[c].pc = "similar"
    /\ expenses' = UpdateSimilar(expenses, calls[c].user, calls[c].keyword, calls[c].category)
    /\ calls' = [calls EXCEPT ![c] = [pc |-> "done"]]
    /\ UNCHANGED <<input, cleaned, classified, stage, file, detected, extracted,
                   transformed, rules, request, response, handle, frame>>

NextRules ==
    \/ \E rule \in NewRules : CreateRule(rule)
    \/ \E x \in NewExpenses : SaveExpense(x[1], x[2])
    \/ \E x \in NewExpenses : PreviewUpload(x[1], x[2])
    \/ \E u \in Users, f \in RejectedFiles : RejectedUpload(u, f)

SpecRules == InitRules /\ [][NextRules]_vars

-----------------------------------------------------------------------------
(* Properties of rule matching, under SpecRules *)

\* the rules of the user whose keyword is in the description, whatever the case
Matching(table, u, d) ==
    { i \in 1..Len(table) :
        table[i].user = u /\ Contains(ToLower(d), ToLower(table[i].description_keyword)) }

\* rule i has the higher priority, or the same priority and was created later
Outranks(table, i, j) ==
    \/ table[i].priority > table[j].priority
    \/ table[i].priority = table[j].priority /\ i > j

Winner(table, S) == CHOOSE i \in S : \A j \in S \ {i} : Outranks(table, i, j)

WinningCategory(table, u, d) ==
    IF Matching(table, u, d) = {} THEN NoCategory
    ELSE AsCategory(table[Winner(table, Matching(table, u, d))].category)

SavedByRule ==
    Len(expenses') > Len(expenses)
    => expenses'[Len(expenses')].category =
          WinningCategory(rules, expenses'[Len(expenses')].user,
                          expenses'[Len(expenses')].description)

PreviewedByRule ==
    (response' # response /\ response'.status = 200)
    => \A j \in 1..Len(response'.transactions) :
          response'.transactions[j].category =
             WinningCategory(rules, request'.user, response'.transactions[j].description.chars)

\* C18: an expense saved without category, and every transaction of an upload
\* preview, gets the category of the rule of its user that matches its
\* description case-insensitively and comes first by descending priority,
\* then descending creation time, and no category when none matches
C18_FirstMatchWins == [][SavedByRule /\ PreviewedByRule]_vars

HasRule(table, u, kw, cat, prio) ==
    \E i \in 1..Len(table) :
        /\ table[i].user = u /\ table[i].description_keyword = kw
        /\ table[i].category = cat /\ table[i].priority = prio

\* with the rules ("uber", Transport, 1) and ("uber eats", Food, 5) alone,
\* "UBER EATS TRIP" was saved and previewed with Food
C18_Witness ==
    /\ stage = "rules"
    /\ rules = ExampleRules
    /\ \E e \in 1..Len(expenses) :
          expenses[e] = [user |-> "alice", description |-> UberEatsTrip,
                         category |-> AsCategory(Food)]
    /\ response # Pending
    /\ response.status = 200
    /\ request.user = "alice"
    /\ response.transactions[1].description = Text(UberEatsTrip)
    /\ response.transactions[1].category = AsCategory(Food)

-----------------------------------------------------------------------------
(* Concurrent update_category requests on a table of expenses *)

NoCall == [pc |-> "idle"]

UberEatsLate == <<"U", "B", "E", "R", " ", TAB, "E", "A", "T", "S", " ", "l", "a", "t", "e">>

\* two expenses per user whose descriptions begin with the same two words
StoredExpenses ==
    << save([user |-> "alice", description |-> UberEatsTrip, category |-> NoCategory], ExampleRules),
       save([user |-> "alice", description |-> UberEatsLate, category |-> NoCategory], ExampleRules),
       save([user |-> "bob", description |-> UberEatsTrip, category |-> NoCategory], ExampleRules),
       save([user |-> "bob", description |-> UberEatsLate, category |-> NoCategory], ExampleRules) >>

InitAssign ==
    /\ rules = ExampleRules
    /\ expenses = StoredExpenses
    /\ calls = [c \in 1..MaxCalls |-> NoCall]
    /\ request = Idle /\ response = Idle
    /\ handle = Idle /\ frame = Idle
    /\ input = Idle /\ cleaned = Idle /\ classified = Idle /\ stage = "assign"
    /\ file = Idle /\ detected = Idle /\ extracted = Idle /\ transformed = Idle

NextAssign ==
    \/ \E rule \in NewRules : CreateRule(rule)
    \/ \E c \in 1..MaxCalls, e \in 1..Len(StoredExpenses), cat \in {Transport, Income},
          create_rule \in BOOLEAN : BeginUpdate(c, e, cat, create_rule)
    \/ \E c \in 1..MaxCalls : GetRule(c)
    \/ \E c \in 1..MaxCalls : CreateOrUpdate(c)
    \/ \E c \in 1..MaxCalls : ApplySimilar(c)

SpecAssign == InitAssign /\ [][NextAssign]_vars

-----------------------------------------------------------------------------
(* Properties of the rule store, under SpecAssign *)

OneRulePerKey ==
    \A i, j \in 1..Len(rules) :
        (rules[i].user = rules[j].user
            /\ rules[i].description_keyword = rules[j].description_keyword)
        => i = j

\* a request whose keyword has a rule leaves update_or_create with that rule
\* in its category and no rule added
Upserted ==
    \A c \in 1..MaxCalls :
        (/\ calls[c].pc \in {"get", "create"}
         /\ calls'[c].pc = "similar"
         /\ FindRule(rules, calls[c].user, calls[c].keyword) # {})
        => /\ Len(rules') = Len(rules)
           /\ \A i \in FindRule(rules, calls[c].user, calls[c].keyword) :
                 rules'[i].category = calls[c].category

\* C19: under every interleaving of rule creations and of the steps of
\* update_category requests, the rule table has at most one rule per user and
\* keyword, and an assignment whose keyword has a rule changes the category
\* of that rule and adds none
C19_OneRulePerUserKeyword == [](OneRulePerKey) /\ [][Upserted]_vars

\* a request found no rule for its keyword, and before its insert a second
\* request of the same user inserted the rule for the same keyword
C19_Witness ==
    /\ stage = "assign"
    /\ \E c, o \in 1..MaxCalls :
          /\ c # o
          /\ calls[c].pc = "create"
          /\ calls[o].pc = "similar"
          /\ calls[o].user = calls[c].user
          /\ calls[o].keyword = calls[c].keyword
          /\ calls[o].category # calls[c].category
          /\ FindRule(rules, calls[c].user, calls[c].keyword) # {}

-----------------------------------------------------------------------------
(* The keyword of update_category, over descriptions built from tokens *)

MaxTokens == 3

LongWord ==
    SelectSeq([i \in 1..(KeywordFallbackLen + 10) |-> "x"], LAMBDA c : TRUE)

WideBlank ==
    SelectSeq([i \in 1..(KeywordFallbackLen + 1) |-> " "], LAMBDA c : TRUE)

Tokens == { <<"U", "b", "e", "r">>, <<"e", "a", "t", "s">>, LongWord, <<" ">>, <<TAB>>, WideBlank }

RECURSIVE TokenTexts(_)
TokenTexts(n) ==
    IF n = 0 THEN { <<>> } ELSE { t \o k : t \in TokenTexts(n - 1), k \in Tokens }

KeywordDescriptions == UNION { TokenTexts(n) : n \in 0..MaxTokens }

InitKeyword ==
    /\ expenses \in { <<[user |-> "alice", description |-> d, category |-> NoCategory]>> :
                        d \in KeywordDescriptions }
    /\ rules = ExampleRules
    /\ calls = [c \in 1..MaxCalls |-> NoCall]
    /\ request = Idle /\ response = Idle
    /\ handle = Idle /\ frame = Idle
    /\ input = Idle /\ cleaned = Idle /\ classified = Idle /\ stage = "keyword"
    /\ file = Idle /\ detected = Idle /\ extracted = Idle /\ transformed = Idle

NextKeyword == \E c \in 1..MaxCalls : BeginUpdate(c, 1, Transport, TRUE)

SpecKeyword == InitKeyword /\ [][NextKeyword]_vars

HasSpace(d) == \E i \in 1..Len(d) : d[i] \in Space

FirstWord(d) == split(d)[1]
FirstTwoWords(d) == split(d)[1] \o <<" ">> \o split(d)[2]

Derived(c) == stage = "keyword" /\ calls[c].pc = "get"

KeywordFor(d, k) ==
    /\ Len(split(d)) >= 2 => k = FirstTwoWords(d)
    /\ Len(split(d)) = 1 => k = FirstWord(d)
    /\ Len(split(d)) = 0 => k = Slice(d, KeywordFallbackLen)
    /\ k = <<>> <=> d = <<>>

-----------------------------------------------------------------------------
(* Frame of update_category, under SpecAssign *)

Changed(old, new) == { e \in 1..Len(old) : new[e] # old[e] }

\* lines 630-632, and the whole request when create_rule is false: at most
\* the target expense changes, to the category of the request, and no rule
TargetOnly ==
    \A c \in 1..MaxCalls :
        (calls[c].pc = "idle" /\ calls'[c].pc # "idle")
        => /\ rules' = rules
           /\ Len(expenses') = Len(expenses)
           /\ Cardinality(Changed(expenses, expenses')) <= 1
           /\ \A e \in Changed(expenses, expenses') :
                 /\ expenses'[e].user = expenses[e].user
                 /\ expenses'[e].description = expenses[e].description
                 /\ expenses'[e].category.kind = "category"
           /\ calls'[c].pc = "get" =>
                 \E e \in 1..Len(expenses) :
                     /\ expenses'[e].category = AsCategory(calls'[c].category)
                     /\ expenses'[e].user = calls'[c].user

\* lines 640-644: no expense changes, and no rule but the one with the key
UpsertOnly ==
    \A c \in 1..MaxCalls :
        (calls[c].pc \in {"get", "create"} /\ calls'[c].pc # calls[c].pc)
        => /\ expenses' = expenses
           /\ Len(rules') \in {Len(rules), Len(rules) + 1}
           /\ \A i \in 1..Len(rules) :
                 rules'[i] # rules[i]
                 => /\ rules[i].user = calls[c].user
                    /\ rules[i].description_keyword = calls[c].keyword
                    /\ rules'[i] = [rules[i] EXCEPT !.category = calls[c].category]
           /\ Len(rules') > Len(rules)
              => /\ rules'[Len(rules')].user = calls[c].user
                 /\ rules'[Len(rules')].description_keyword = calls[c].keyword
                 /\ rules'[Len(rules')].category = calls[c].category

\* lines 647-652: the uncategorized expenses of the user that contain the
\* keyword take the category; every other expense and every rule stays
SimilarOnly ==
    \A c \in 1..MaxCalls :
        (calls[c].pc = "similar" /\ calls'[c].pc = "done")
        => /\ rules' = rules
           /\ Len(expenses') = Len(expenses)
           /\ \A e \in 1..Len(expenses) :
                 expenses'[e] =
                    IF /\ expenses[e].user = calls[c].user
                       /\ expenses[e].category = NoCategory
                       /\ Contains(ToLower(expenses[e].description), ToLower(calls[c].keyword))
                    THEN [expenses[e] EXCEPT !.category = AsCategory(calls[c].category)]
                    ELSE expenses[e]

\* C21: update_category changes the target expense, then with create_rule
\* only the rule of the derived keyword, then only the uncategorized
\* expenses of the same user that contain the keyword, which take the
\* category; without create_rule it changes the target expense alone
C21_UpdateCategoryFrame == [][TargetOnly /\ UpsertOnly /\ SimilarOnly]_vars

\* a request of bob with create_rule gave its category to his other,
\* uncategorized expense, while the expenses of alice kept theirs
C21_Witness ==
    /\ stage = "assign"
    /\ \E c \in 1..MaxCalls : calls[c].pc = "done"
    /\ \A c \in 1..MaxCalls : calls[c].pc \in {"idle", "done"}
    /\ expenses[3].category = AsCategory(Transport)
    /\ expenses[4].category = AsCategory(Transport)
    /\ expenses[1] = StoredExpenses[1] /\ expenses[2] = StoredExpenses[2]
    /\ \E i \in 1..Len(rules) : rules[i].user = "bob" /\ rules[i].category = Transport

\* the expenses the last step of a request categorizes carry the category
\* the matcher gives their description over the rules of their user
Reapplied ==
    \A c \in 1..MaxCalls :
        (calls[c].pc = "similar" /\ calls'[c].pc = "done")
        => \A e \in 1..Len(expenses) :
              (expenses[e].category = NoCategory /\ expenses'[e].category # NoCategory)
              => expenses'[e].category =
                    WinningCategory(rules', expenses[e].user, expenses[e].description)

\* C22: every expense that update_category finds uncategorized and leaves
\* categorized carries the category of the first rule of its user, by
\* descending priority then recency, that matches its description
C22_ReapplicationIsMatching == [][Reapplied]_vars

-----------------------------------------------------------------------------
(* ExpenseViewSet.bulk_create *)

Categories == {Transport, Food, Income}

\* the keys read with transaction[...], in the order of lines 526-529
RequiredKeys == <<"date", "amount", "transaction_type", "description">>

MissingKeys(fields) == SelectSeq(RequiredKeys, LAMBDA k : k \notin DOMAIN fields)

\* a primary key in the request body
Id(pk) == [kind |-> "id", pk |-> pk]

\* transaction.get('category')
CategoryId(fields) == IF "category" \in DOMAIN fields THEN fields.category ELSE Null

\* max_length of Expense.transaction_type
TypeMaxLen == 6

\* the row Expense.objects.create builds from a transaction
NewExpense(u, fields, pk) ==
    [user |-> u, date |-> fields.date, amount |-> fields.amount,
     transaction_type |-> fields.transaction_type, description |-> fields.description,
     category |-> IF pk = Null THEN NoCategory
                  ELSE AsCategory(CHOOSE c \in Categories : Id(c.pk) = pk)]

\* Expense.objects.create(...) of lines 524-531 for one element: the stored
\* expense, or the exception; `enforce` says whether the database refuses a
\* string longer than the column
create(u, t, rule_table, enforce) ==
    IF t.kind # "dict" THEN Raise(<<"TypeError", "transaction">>)
    ELSE IF MissingKeys(t.fields) # <<>>
    THEN Raise(<<"KeyError", MissingKeys(t.fields)[1]>>)
    ELSE IF CategoryId(t.fields) # Null
            /\ \A c \in Categories : Id(c.pk) # CategoryId(t.fields)
    THEN Raise(<<"DoesNotExist", "category">>)
    ELSE IF ParseWithFormat(t.fields.date, "iso") = NaT
    THEN Raise(<<"ValidationError", "date">>)
    ELSE IF enforce /\ Len(t.fields.transaction_type) > TypeMaxLen
    THEN Raise(<<"DataError", "transaction_type">>)
    ELSE Ok(save(NewExpense(u, t.fields, CategoryId(t.fields)), rule_table))

\* request.data without the key, and with a list under it
Missing == [kind |-> "missing"]

List(items) == [kind |-> "list", items |-> items]

MsgNoTransactions == "No transactions provided"

\* the error entries of lines 533-538, with the 0-based index of enumerate
ErrorEntries(transactions, results) ==
    SelectSeq([i \in 1..Len(results) |->
                  IF results[i].ok THEN Null
                  ELSE [index |-> i - 1, error |-> results[i].error,
                        transaction |-> transactions[i]]],
              LAMBDA x : x # Null)

CreatedExpenses(results) ==
    [i \in 1..Len(SelectSeq(results, LAMBDA r : r.ok)) |->
        SelectSeq(results, LAMBDA r : r.ok)[i].value]

\* a loop that gives up at the first exception
Loaded_abort(transactions, results) ==
    LET last == IF \E i \in 1..Len(results) : ~results[i].ok
                THEN CHOOSE i \in 1..Len(results) :
                        ~results[i].ok /\ \A j \in 1..(i - 1) : results[j].ok
                ELSE Len(results)
        tried == SubSeq(results, 1, last)
    IN  [status |-> 201, created |-> Len(CreatedExpenses(tried)),
         errors |-> ErrorEntries(transactions, tried),
         expenses |-> CreatedExpenses(tried)]

\* lines 519-544 from the result of every create
Loaded(transactions, results) ==
    [status |-> 201, created |-> Len(CreatedExpenses(results)),
     errors |-> ErrorEntries(transactions, results),
     expenses |-> CreatedExpenses(results)]

\* bulk_create(request)
bulk_create(req, rule_table, enforce) ==
    IF req.transactions = Missing \/ req.transactions = List(<<>>)
    THEN [status |-> 400, error |-> MsgNoTransactions, expenses |-> <<>>]
    ELSE Loaded(req.transactions.items,
                [i \in 1..Len(req.transactions.items) |->
                    create(req.user, req.transactions.items[i], rule_table, enforce)])

-----------------------------------------------------------------------------
(* Inputs of bulk_create: the transactions of a preview sent back, and lists
   written by a client *)

MaxBatch == 2

Dict(fields) == [kind |-> "dict", fields |-> fields]

\* a transaction of transform as the client posts it back
AsDict(t) ==
    Dict([date |-> t.date.chars, amount |-> t.amount,
          transaction_type |-> t.transaction_type, description |-> t.description.chars])

PreviewRows ==
    { Row(Text(Iso1), Text(<<"5", "0", ".", "0", "0">>), Text(UberEatsTrip)),
      Row(Text(Iso2), Text(<<"-", "2", "0">>), Words[2]),
      Row(Text(Iso1), Text(<<"0", ".", "0", "0">>), Words[1]) }

PreviewOf(rows) == transform(FrameOfRows(rows), ExactMapping.map)

\* the previews of the tables of one to MaxBatch rows
Previews ==
    { [i \in 1..Len(PreviewOf(rows).value) |-> AsDict(PreviewOf(rows).value[i])] :
        rows \in UNION { SeqsOver(PreviewRows, n) : n \in 1..MaxBatch } }

GoodDict ==
    [date |-> Iso1, amount |-> Float(50, 0), transaction_type |-> "DEBIT",
     description |-> UberEatsTrip]

ClientElements ==
    { Dict(GoodDict),
      Dict([GoodDict EXCEPT !.description = Words[2].chars]),
      Dict(GoodDict @@ [category |-> Id(Transport.pk)]),
      Dict(GoodDict @@ [category |-> Null]),
      Dict(GoodDict @@ [category |-> Id(0)]),
      Dict([GoodDict EXCEPT !.date = NoDate]),
      Dict([amount |-> Float(50, 0), transaction_type |-> "DEBIT", description |-> UberEatsTrip]),
      [kind |-> "str"] }

LoadRequests ==
    { [user |-> u, source |-> "preview", transactions |-> List(l)] : u \in Users, l \in Previews }
    \cup { [user |-> u, source |-> "client", transactions |-> List(l)] :
             u \in Users, l \in UNION { SeqsOver(ClientElements, n) : n \in 0..MaxBatch } }
    \cup { [user |-> u, source |-> "client", transactions |-> Missing] : u \in Users }

InitLoad ==
    /\ request \in LoadRequests
    /\ response = Pending
    /\ rules = ExampleRules
    /\ expenses = <<>>
    /\ calls = Idle
    /\ handle = Idle /\ frame = Idle
    /\ input = Idle /\ cleaned = Idle /\ classified = Idle /\ stage = "load"
    /\ file = Idle /\ detected = Idle /\ extracted = Idle /\ transformed = Idle

\* POST /expenses/bulk_create/
BulkCreate(enforce) ==
    /\ response = Pending
    /\ response' = bulk_create(request, rules, enforce)
    /\ expenses' = expenses \o bulk_create(request, rules, enforce).expenses
    /\ UNCHANGED <<input, cleaned, classified, stage, file, detected, extracted,
                   transformed, rules, request, handle, frame, calls>>

NextLoad == \E enforce \in BOOLEAN : BulkCreate(enforce)

SpecLoad == InitLoad /\ [][NextLoad]_vars

-----------------------------------------------------------------------------
(* Partial results of bulk_create, under SpecLoad *)

Items == request.transactions.items

ErrorIndexes == { response.errors[k].index : k \in 1..Len(response.errors) }

\* the 0-based input indexes without an error entry, in input order
CreatedIndexes ==
    SelectSeq([i \in 1..Len(Items) |-> i - 1], LAMBDA i : i \notin ErrorIndexes)

\* what Expense.objects.create does with element i when it is the only one
Alone(i) == { create(request.user, Items[i + 1], rules, enforce) : enforce \in BOOLEAN }

ErrorsByIndex ==
    /\ \A k \in 1..Len(response.errors) :
          /\ response.errors[k].index \in 0..(Len(Items) - 1)
          /\ response.errors[k].transaction = Items[response.errors[k].index + 1]
          /\ Raise(response.errors[k].error) \in Alone(response.errors[k].index)
    /\ \A k \in 1..(Len(response.errors) - 1) :
          response.errors[k].index < response.errors[k + 1].index

CreatedInOrder ==
    /\ Len(response.expenses) = Len(CreatedIndexes)
    /\ \A k \in 1..Len(CreatedIndexes) :
          Ok(response.expenses[k]) \in Alone(CreatedIndexes[k])

NothingLoaded ==
    /\ response.status = 400
    /\ response.error = MsgNoTransactions
    /\ expenses = <<>>

\* C23: bulk_create attempts every element of a non-empty list on its own:
\* every input index is either one created expense or one error entry with
\* that index, the exception and the transaction, created + len(errors) = n,
\* the elements after a failure are still created, and the created expenses
\* keep the input order; an empty or missing list is answered with an error
\* and nothing is created.
C23_EveryElementAttempted ==
    (stage = "load" /\ response # Pending) =>
        IF request.transactions = Missing \/ Items = <<>>
        THEN NothingLoaded
        ELSE /\ response.status = 201
             /\ response.created = Len(response.expenses)
             /\ response.created + Len(response.errors) = Len(Items)
             /\ ErrorsByIndex
             /\ CreatedInOrder
             /\ expenses = response.expenses

C23_Witness ==
    /\ stage = "load" /\ response # Pending
    /\ request.transactions # Missing
    /\ Len(Items) = 2
    /\ response.status = 201
    /\ response.created = 1
    /\ Len(response.errors) = 1
    /\ response.errors[1].index = 0
    /\ Len(expenses) = 1

\* Expense.TRANSACTION_TYPES
TRANSACTION_TYPES == {"DEBIT", "CREDIT"}

\* C24: every transaction returned by transform is stored by bulk_create
\* without a per-row error, with a transaction_type that is one of the
\* model's allowed types and fits the field, zero amounts included.
C24_PreviewStorable ==
    (stage = "load" /\ response # Pending /\ request.source = "preview") =>
        /\ response.status = 201
        /\ response.errors = <<>>
        /\ \A k \in 1..Len(expenses) :
              /\ expenses[k].transaction_type \in TRANSACTION_TYPES
              /\ Len(expenses[k].transaction_type) <= TypeMaxLen

\* the category the request gives for input index i, or Null
GivenCategory(i) == CategoryId(Items[i + 1].fields)

KeptOrMatched ==
    \A k \in 1..Len(CreatedIndexes) :
        IF GivenCategory(CreatedIndexes[k]) # Null
        THEN \E c \in Categories :
                /\ Id(c.pk) = GivenCategory(CreatedIndexes[k])
                /\ expenses[k].category = AsCategory(c)
        ELSE /\ expenses[k].category =
                    WinningCategory(rules, request.user, expenses[k].description)
             /\ expenses[k].category = NoCategory
                    <=> Matching(rules, request.user, expenses[k].description) = {}

\* C25: an expense saved with a category keeps it and no rule is consulted;
\* an expense saved without one gets the category of the first matching rule
\* of its user in rule order, and stays uncategorized only if no rule of
\* that user matches its description.
C25_CategoryKeptOrMatched ==
    (stage = "load" /\ response # Pending /\ response.status = 201)
        => Len(expenses) = Len(CreatedIndexes) /\ KeptOrMatched

C25_Witness ==
    /\ stage = "load" /\ response # Pending /\ response.status = 201
    /\ Len(expenses) = 2
    /\ GivenCategory(0) = Id(Transport.pk)
    /\ GivenCategory(1) = Null
    /\ expenses[1].description = expenses[2].description
    /\ expenses[1].category = AsCategory(Transport)
    /\ expenses[2].category = AsCategory(Food)

-----------------------------------------------------------------------------
(* Uploads of tables whose rows repeat a transaction in another notation *)

RepeatedRows ==
    { Row(Text(Iso1), Text(Fifty), Words[1]),
      Row(Text(Iso1), Text(<<"$", "5", "0", ".", "0", "0">>), Words[1]),
      Row(Text(Iso1), Text(Fifty), Text(<<" ", "U", "b", "e", "r", " ", " ", "r", "i", "d", "e", " ">>)),
      Row(Text(Iso2), Text(<<"-", "2", "0">>), Words[2]),
      Row(Text(Iso2), Text(<<"(", "2", "0", ")">>), Words[2]) }

RepeatedFrames == UNION { SeqsOver(RepeatedRows, n) : n \in 1..MaxRows }

InitPreview ==
    /\ request \in { UploadRequest(u, [name |-> CsvName, content |-> FrameOfRows(rows)],
                                   NoOverrides) : u \in Users, rows \in RepeatedFrames }
    /\ response = Pending
    /\ rules = ExampleRules
    /\ handle = Idle /\ frame = Idle
    /\ input = Idle /\ cleaned = Idle /\ classified = Idle /\ stage = "preview"
    /\ file = Idle /\ detected = Idle /\ extracted = Idle /\ transformed = Idle
    /\ expenses = <<>> /\ calls = Idle

SpecPreview == InitPreview /\ [][Upload]_vars

SameTransaction(a, b) ==
    /\ a.date = b.date
    /\ a.amount = b.amount
    /\ a.transaction_type = b.transaction_type
    /\ a.description = b.description

\* C26: the preview of a successful upload has no two records with the same
\* date, amount, transaction_type and description, also when the raw rows
\* differed only in formatting.
C26_PreviewHasNoDuplicates ==
    (stage = "preview" /\ response # Pending /\ response.status = 200) =>
        \A i, j \in 1..Len(response.transactions) :
            i # j => ~SameTransaction(response.transactions[i], response.transactions[j])

-----------------------------------------------------------------------------
(* Frame of upload, under SpecRules *)

Uploaded == response' # response

-----------------------------------------------------------------------------
(* Content validators of detect_columns, under SpecRows *)

\* the sampled values of the column that extract mapped to the role
SampleOf(role) ==
    LET df == extracted.value.df
        c  == CHOOSE k \in 1..Len(df.columns) :
                 /\ df.columns[k] \in DOMAIN extracted.value.mapping
                 /\ extracted.value.mapping[df.columns[k]] = role
    IN  Sample(df.data[c])

\* the sampled values that parse as dates, under the better convention
DateParses(sample) ==
    Max(NotNaCount(to_datetime(sample, FALSE)), NotNaCount(to_datetime(sample, TRUE)))

NumericParses(sample) ==
    Cardinality({ i \in 1..Len(sample) : NumericText(sample[i].chars) })

\* n of k values, with n >= ceil(k / 2)
AtLeastHalf(n, k) == k > 0 /\ 2 * n >= k

\* C28: a column is accepted for the date or amount role only if at least
\* half of its first up-to-10 non-empty values parse (ceil(k/2) of k, such
\* as 2 of 3), and never with an empty sample.
C28_AcceptedOnHalfParsed ==
    (stage = "rows_extracted" /\ extracted.ok) =>
        /\ AtLeastHalf(DateParses(SampleOf("date")), Len(SampleOf("date")))
        /\ AtLeastHalf(NumericParses(SampleOf("amount")), Len(SampleOf("amount")))

-----------------------------------------------------------------------------
(* Order of the transactions of transform, under SpecRows *)

\* the input indexes of the rows that are not all-null and repeat no earlier
\* row, in increasing order
Origin(rows) ==
    SelectSeq([k \in 1..Len(rows) |-> k],
              LAMBDA k : ~AllNull(rows[k]) /\ \A h \in 1..(k - 1) : rows[h] # rows[k])

\* the input indexes of the surviving rows, in increasing order
Survivors(rows) ==
    LET parsed == ParsedDates([j \in 1..Len(Origin(rows)) |-> rows[Origin(rows)[j]].date])
    IN  SelectSeq([j \in 1..Len(Origin(rows)) |-> [row |-> Origin(rows)[j], dt |-> parsed[j]]],
                  LAMBDA x : /\ x.dt # NaT
                             /\ ~IsNa(parse_amount(rows[x.row].amount))
                             /\ clean_description(rows[x.row].description) # <<>>)

\* C29: the transactions of transform are in the order of the source rows
\* they come from: the j-th transaction is that of the j-th surviving row,
\* whatever rows were dropped in between.
C29_SourceOrderKept ==
    (stage = "rows_transformed" /\ transformed.ok) =>
        /\ Len(transformed.value) = Len(Survivors(input))
        /\ \A j \in 1..Len(Survivors(input)) :
              transformed.value[j] =
                  AsTransaction(input[Survivors(input)[j].row], Survivors(input)[j].dt)

\* three rows, the middle one dropped for its date, two different
\* transactions left
C29_Witness ==
    /\ stage = "rows_transformed"
    /\ Len(input) = 3
    /\ input[2].date = Text(NoDate)
    /\ transformed.ok
    /\ Len(transformed.value) = 2
    /\ transformed.value[1] # transformed.value[2]
    /\ Survivors(input)[1].row = 1
    /\ Survivors(input)[2].row = 3

-----------------------------------------------------------------------------
(* Owners of the categories, under SpecAssign *)

\* Category.user: the users owning the category, none for a default category
CategoryUsers(pk) == IF pk = Income.pk THEN {} ELSE {"alice"}

\* the category is a default one or belongs to the user
VisibleTo(pk, u) == CategoryUsers(pk) = {} \/ u \in CategoryUsers(pk)

Isolated ==
    /\ \A e \in 1..Len(expenses) :
          expenses[e].category # NoCategory => VisibleTo(expenses[e].category.pk, expenses[e].user)
    /\ \A r \in 1..Len(rules) : VisibleTo(rules[r].category.pk, rules[r].user)

\* a step changes or adds expenses and rules of one user only
OwnRecordsOnly ==
    \E u \in Users :
        /\ \A e \in 1..Len(expenses') :
              (e > Len(expenses) \/ expenses'[e] # expenses[e]) => expenses'[e].user = u
        /\ \A r \in 1..Len(rules') :
              (r > Len(rules) \/ rules'[r] # rules[r]) => rules'[r].user = u

\* C30: after any sequence of requests every expense's and every rule's
\* category is a default category or one of the same user, and a request
\* changes the expenses and rules of its own user only.
C30_TenantIsolation == [](stage = "assign" => Isolated) /\ [][OwnRecordsOnly]_vars

====
